---------------------------- MODULE Spec2Model ----------------------------
(***************************************************************************)
(* A model of the SN76489 programmable sound generator emulator            *)
(* (package sn76489): the write-port decoder, the clock prescaler, the     *)
(* tone and noise generators, the resampler / frame driver and the 40-byte *)
(* state snapshot.                                                         *)
(*                                                                         *)
(* The engine (struct SN76489) is a record; every method is an operator    *)
(* from an engine record to the engine record it leaves behind, translated *)
(* statement by statement.  Representation choices:                        *)
(*   - clocksPerSample and clockCounter (float64) are kept as IEEE-754   *)
(*     binary64 bit patterns; the quotient of New, the increment, the      *)
(*     comparison and the subtraction of Run are the rounded operations of *)
(*     the hardware.                                                       *)
(*   - amplitudes (float32) are kept in units of 10^-6, gain in units of   *)
(*     1/4 (the default gain 0.25 is 1).                                   *)
(*   - slices are functions over 0 .. len-1, as in the code.               *)
(***************************************************************************)
EXTENDS Integers, Naturals, Sequences, FiniteSets, TLC

VARIABLES chip, ref, pre, op, ret, phase, nops

vars == <<chip, ref, pre, op, ret, phase, nops>>

---------------------------------------------------------------------------
(* Bounds of the model. *)

\* operations per behaviour of the general specification
MaxOps == 4

\* capacity of the output buffers (bufferSize of New)
BufferSize == 3

---------------------------------------------------------------------------
(* Unsigned integer helpers (uint8 / uint16 arithmetic of the code). *)

Pow2(n) == 2 ^ n

Bit(x, i) == (x \div Pow2(i)) % 2

\* x >> n
Shr(x, n) == x \div Pow2(n)

RECURSIVE BitAndN(_, _, _)
BitAndN(a, b, n) ==
  IF n = 0 THEN 0
  ELSE (a % 2) * (b % 2) + 2 * BitAndN(a \div 2, b \div 2, n - 1)

RECURSIVE BitOrN(_, _, _)
BitOrN(a, b, n) ==
  IF n = 0 THEN 0
  ELSE (IF (a % 2) + (b % 2) > 0 THEN 1 ELSE 0)
         + 2 * BitOrN(a \div 2, b \div 2, n - 1)

RECURSIVE BitXorN(_, _, _)
BitXorN(a, b, n) ==
  IF n = 0 THEN 0
  ELSE ((a + b) % 2) + 2 * BitXorN(a \div 2, b \div 2, n - 1)

\* a & b, a | b, a ^ b on uint16
And16(a, b) == BitAndN(a, b, 16)
Or16(a, b)  == BitOrN(a, b, 16)
Xor16(a, b) == BitXorN(a, b, 16)

\* uint16(x): truncation to 16 bits
U16(x) == x % 65536

---------------------------------------------------------------------------
(* float64 (IEEE-754 binary64) arithmetic of the resampler.  A float64 is  *)
(* kept as its bit pattern: the sign s, the 11-bit biased exponent e and   *)
(* the 52-bit fraction in two halves, hi (bits 51..26) and lo (bits        *)
(* 25..0).  Sums and quotients are rounded to nearest, ties to even, as    *)
(* the hardware does.  During an operation the 53-bit significand,         *)
(* followed by guard, round and sticky bit, is a 56-bit number <<H, L>> of *)
(* two 28-bit limbs.                                                       *)

\* floor(log2(n)) for n >= 1
RECURSIVE Log2(_)
Log2(n) == IF n <= 1 THEN 0 ELSE 1 + Log2(n \div 2)

F64(s, e, hi, lo) == [s |-> s, e |-> e, hi |-> hi, lo |-> lo]

\* 0.0 and 1.0
F64Zero == F64(0, 0, 0, 0)
F64One == F64(0, 1023, 0, 0)

F64IsNaN(x) == x.e = 2047 /\ (x.hi # 0 \/ x.lo # 0)
F64IsZero(x) == x.e = 0 /\ x.hi = 0 /\ x.lo = 0

\* the NaN an operation returns for a NaN operand: the operand made quiet
\* (amd64, arm64; the payload is target-dependent elsewhere)
F64Quiet(x) == [x EXCEPT !.hi = (x.hi % 33554432) + 33554432]

\* the NaN of an invalid operation (0/0, Inf - Inf) as amd64 produces it;
\* arm64 produces the same pattern with the sign clear
F64DefaultNaN == F64(1, 2047, 33554432, 0)

\* the exponent and the 56-bit extended significand of a finite x
F64Exp(x) == IF x.e = 0 THEN 1 ELSE x.e
F64High(x) ==
  (IF x.e = 0 THEN 0 ELSE 134217728) + x.hi * 2 + x.lo \div 33554432
F64Low(x) == (x.lo % 33554432) * 8

\* <<H, L>> shifted right by d bits, the bits shifted out kept in bit 0
F64ShiftRight(H, L, d) ==
  LET raw == IF d = 0 THEN <<H, L, FALSE>>
             ELSE IF d < 28
               THEN <<H \div 2 ^ d,
                      L \div 2 ^ d + (H % 2 ^ d) * 2 ^ (28 - d),
                      L % 2 ^ d # 0>>
             ELSE IF d < 56
               THEN <<0, H \div 2 ^ (d - 28),
                      L # 0 \/ H % 2 ^ (d - 28) # 0>>
             ELSE <<0, 0, H # 0 \/ L # 0>>
  IN <<raw[1], IF raw[3] /\ raw[2] % 2 = 0 THEN raw[2] + 1 ELSE raw[2]>>

\* <<H, L>> shifted left by k bits (no set bit is shifted out)
F64ShiftLeft(H, L, k) ==
  IF k < 28
    THEN <<H * 2 ^ k + L \div 2 ^ (28 - k), (L % 2 ^ (28 - k)) * 2 ^ k>>
    ELSE <<L * 2 ^ (k - 28), 0>>

\* the number of leading zero bits of the 56-bit <<H, L>>, which is not 0
F64LeadingZeros(H, L) == IF H # 0 THEN 27 - Log2(H) ELSE 55 - Log2(L)

\* the float64 of sign s nearest to <<H, L>> / 8 * 2^(ex - 1075), ties to
\* even; <<H, L>> is below 2^56 and, unless ex = 1, at least 2^55
F64Round(s, ex, H, L) ==
  LET grs == L % 8
      hi27 == H \div 2
      lo26 == (H % 2) * 33554432 + L \div 8
      up == grs > 4 \/ (grs = 4 /\ lo26 % 2 = 1)
      lo1 == IF up THEN lo26 + 1 ELSE lo26
      hi1 == IF lo1 = 67108864 THEN hi27 + 1 ELSE hi27
      lo2 == lo1 % 67108864
      ex2 == IF hi1 = 134217728 THEN ex + 1 ELSE ex
      hi2 == IF hi1 = 134217728 THEN 67108864 ELSE hi1
  IN IF hi2 < 67108864 THEN F64(s, 0, hi2, lo2)
     ELSE IF ex2 >= 2047 THEN F64(s, 2047, 0, 0)
     ELSE F64(s, ex2, hi2 - 67108864, lo2)

\* |x| >= |y| for finite x and y
F64MagGe(x, y) ==
  \/ x.e > y.e
  \/ x.e = y.e /\ x.hi > y.hi
  \/ x.e = y.e /\ x.hi = y.hi /\ x.lo >= y.lo

\* a + b for finite non-zero a and b with |a| >= |b|
F64AddOrdered(a, b) ==
  LET ex == F64Exp(a)
      sb == F64ShiftRight(F64High(b), F64Low(b), ex - F64Exp(b))
  IN IF a.s = b.s
       THEN LET low == F64Low(a) + sb[2]
                H == F64High(a) + sb[1] + low \div 268435456
                L == low % 268435456
            IN IF H >= 268435456
                 THEN LET r == F64ShiftRight(H, L, 1)
                      IN F64Round(a.s, ex + 1, r[1], r[2])
                 ELSE F64Round(a.s, ex, H, L)
       ELSE LET low == F64Low(a) - sb[2]
                H == F64High(a) - sb[1] - (IF low < 0 THEN 1 ELSE 0)
                L == IF low < 0 THEN low + 268435456 ELSE low
            IN IF H = 0 /\ L = 0 THEN F64Zero
               ELSE LET lz == F64LeadingZeros(H, L)
                        k == IF lz < ex - 1 THEN lz ELSE ex - 1
                        n == F64ShiftLeft(H, L, k)
                    IN F64Round(a.s, ex - k, n[1], n[2])

\* x + y
F64Add(x, y) ==
  IF F64IsNaN(x) THEN F64Quiet(x)
  ELSE IF F64IsNaN(y) THEN F64Quiet(y)
  ELSE IF x.e = 2047
    THEN IF y.e = 2047 /\ y.s # x.s THEN F64DefaultNaN ELSE x
  ELSE IF y.e = 2047 THEN y
  ELSE IF F64IsZero(x) /\ F64IsZero(y)
    THEN F64(IF x.s = 1 /\ y.s = 1 THEN 1 ELSE 0, 0, 0, 0)
  ELSE IF F64IsZero(x) THEN y
  ELSE IF F64IsZero(y) THEN x
  ELSE IF F64MagGe(x, y) THEN F64AddOrdered(x, y)
  ELSE F64AddOrdered(y, x)

\* x - y
F64Sub(x, y) ==
  IF F64IsNaN(x) THEN F64Quiet(x)
  ELSE IF F64IsNaN(y) THEN F64Quiet(y)
  ELSE F64Add(x, [y EXCEPT !.s = 1 - y.s])

\* x >= y
F64Ge(x, y) ==
  IF F64IsNaN(x) \/ F64IsNaN(y) THEN FALSE
  ELSE IF F64IsZero(x) /\ F64IsZero(y) THEN TRUE
  ELSE IF x.s # y.s THEN x.s = 0
  ELSE IF x.s = 0 THEN F64MagGe(x, y)
  ELSE F64MagGe(y, x)

\* n quotient bits of r / b for 0 <= r < b: <<the bits, the remainder>>
RECURSIVE F64DivBits(_, _, _)
F64DivBits(r, b, n) ==
  IF n = 0 THEN <<0, r>>
  ELSE IF r >= b - r
    THEN LET rest == F64DivBits(r - (b - r), b, n - 1)
         IN <<2 ^ (n - 1) + rest[1], rest[2]>>
    ELSE F64DivBits(r + r, b, n - 1)

\* for 0 < m < b: <<m * 2^(j-1), j>> with j the least for which
\* m * 2^j >= b
RECURSIVE F64Scale(_, _, _)
F64Scale(m, b, j) ==
  IF m >= b - m THEN <<m, j>> ELSE F64Scale(m + m, b, j + 1)

\* float64(a) / float64(b) for positive integers a and b
F64Quotient(s, a, b) ==
  LET t == IF a >= b THEN Log2(a \div b) ELSE 0
      sc == IF a >= b THEN <<0, 0>> ELSE F64Scale(a, b, 1)
      bb == IF a >= b THEN b * 2 ^ t ELSE b
      r0 == IF a >= b THEN a - bb ELSE sc[1] - (b - sc[1])
      ex == IF a >= b THEN 1023 + t ELSE 1023 - sc[2]
      h == F64DivBits(r0, bb, 27)
      l == F64DivBits(h[2], bb, 27)
  IN F64Round(s, ex, 134217728 + h[1],
              l[1] * 2 + (IF l[2] # 0 THEN 1 ELSE 0))

\* float64(a) / float64(b) for integers a and b
F64Div(a, b) ==
  LET s == IF (a < 0) = (b < 0) THEN 0 ELSE 1
      abs(n) == IF n < 0 THEN 0 - n ELSE n
  IN IF b = 0
       THEN IF a = 0 THEN F64DefaultNaN
            ELSE F64(IF a < 0 THEN 1 ELSE 0, 2047, 0, 0)
       ELSE IF a = 0 THEN F64(s, 0, 0, 0)
       ELSE F64Quotient(s, abs(a), abs(b))

\* math.Float64bits(x), as its eight bytes, low byte first
Float64bits(x) ==
  <<x.lo % 256,
    (x.lo \div 256) % 256,
    (x.lo \div 65536) % 256,
    x.lo \div 16777216 + (x.hi % 64) * 4,
    (x.hi \div 64) % 256,
    (x.hi \div 16384) % 256,
    x.hi \div 4194304 + (x.e % 16) * 16,
    x.e \div 16 + 128 * x.s>>

\* math.Float64frombits(binary.LittleEndian.Uint64(buf[at:]))
Float64frombits(buf, at) ==
  F64(buf[at + 7] \div 128,
      (buf[at + 7] % 128) * 16 + buf[at + 6] \div 16,
      (buf[at + 6] % 16) * 4194304 + buf[at + 5] * 16384
        + buf[at + 4] * 64 + buf[at + 3] \div 4,
      (buf[at + 3] % 4) * 16777216 + buf[at + 2] * 65536
        + buf[at + 1] * 256 + buf[at])

\* twice the value of x, for an x that is a whole number of halves from 0
\* to 2^27; -1 for any other x
Halves(x) ==
  IF F64IsZero(x) THEN 0
  ELSE IF x.s = 1 \/ x.lo # 0 \/ x.e < 1022 \/ x.e > 1048 THEN 0 - 1
  ELSE IF x.hi % 2 ^ (1048 - x.e) # 0 THEN 0 - 1
  ELSE (67108864 + x.hi) \div 2 ^ (1048 - x.e)

\* Real arithmetic on accumulator values.  A float64 that is a whole,
\* non-negative number of units of 2^-52 (every accumulator value of an
\* engine with clocksPerSample >= 1 is one) is written as that number of
\* units, in eight digits to the base 2^13, lowest digit first.

\* bit j of the 53-bit significand of x
F64SigBit(x, j) ==
  IF j < 0 \/ j > 52 THEN 0
  ELSE IF j < 26 THEN (x.lo \div 2 ^ j) % 2
  ELSE IF j < 52 THEN (x.hi \div 2 ^ (j - 26)) % 2
  ELSE IF x.e = 0 THEN 0 ELSE 1

\* x is a whole, non-negative number of units of 2^-52 below 2^51
IsExact(x) ==
  /\ x.s = 0
  /\ x.e < 1074
  /\ \A j \in 0 .. 52 : j + F64Exp(x) < 1023 => F64SigBit(x, j) = 0

RECURSIVE ExactDigit(_, _, _)
\* the digit of x * 2^52 made of the bits from + b .. from + 12
ExactDigit(x, from, b) ==
  IF b > 12 THEN 0
  ELSE F64SigBit(x, from + b - (F64Exp(x) - 1023))
         + 2 * ExactDigit(x, from, b + 1)

Exact(x) == [i \in 0 .. 7 |-> ExactDigit(x, 13 * i, 0)]

\* the whole number n < 2^26 in units of 2^-52
ExactInt(n) ==
  [i \in 0 .. 7 |-> IF i = 4 THEN n % 8192
                    ELSE IF i = 5 THEN n \div 8192 ELSE 0]

RECURSIVE ExactSumCarry(_, _, _)
ExactSumCarry(a, b, i) ==
  IF i < 0 THEN 0 ELSE (a[i] + b[i] + ExactSumCarry(a, b, i - 1)) \div 8192

ExactSum(a, b) ==
  [i \in 0 .. 7 |-> (a[i] + b[i] + ExactSumCarry(a, b, i - 1)) % 8192]

RECURSIVE ExactTimesCarry(_, _, _)
ExactTimesCarry(k, a, i) ==
  IF i < 0 THEN 0 ELSE (k * a[i] + ExactTimesCarry(k, a, i - 1)) \div 8192

\* k * a for a whole number 0 <= k < 2^17
ExactTimes(k, a) ==
  [i \in 0 .. 7 |-> (k * a[i] + ExactTimesCarry(k, a, i - 1)) % 8192]

RECURSIVE ExactLeFrom(_, _, _)
ExactLeFrom(a, b, i) ==
  IF i < 0 THEN TRUE
  ELSE IF a[i] # b[i] THEN a[i] < b[i]
  ELSE ExactLeFrom(a, b, i - 1)

ExactLe(a, b) == ExactLeFrom(a, b, 7)
ExactLt(a, b) == ~ExactLe(b, a)

\* the least whole number that is at least x, for an x that IsExact
Ceiling(x) ==
  LET d == Exact(x)
  IN d[4] + 8192 * d[5] + (IF \E i \in 0 .. 3 : d[i] # 0 THEN 1 ELSE 0)

---------------------------------------------------------------------------
(* Variant configuration. *)

ToneZeroAsOne == 0
ToneZeroAs1024 == 1

Sega == [LFSRBits |-> 16, WhiteNoiseTaps |-> 9, ToneZero |-> ToneZeroAsOne]

TI == [LFSRBits |-> 15, WhiteNoiseTaps |-> 3, ToneZero |-> ToneZeroAs1024]

Variants == {Sega, TI}

\* volumeTable[i] = float32(10^(-2 i / 20)), in units of 10^-6; [15] = 0
volumeTable ==
  [i \in 0 .. 15 |->
     <<1000000, 794328, 630957, 501187, 398107, 316228, 251189, 199526,
       158489, 125893, 100000, 79433, 63096, 50119, 39811, 0>>[i + 1]]

---------------------------------------------------------------------------
(* Construction and reset. *)

Zero3 == (0 :> 0 @@ 1 :> 0 @@ 2 :> 0)
False3 == (0 :> FALSE @@ 1 :> FALSE @@ 2 :> FALSE)
Silent4 == (0 :> 15 @@ 1 :> 15 @@ 2 :> 15 @@ 3 :> 15)

\* make([]float32, bufferSize): bufferSize zeros at indices 0 .. bufferSize-1
RECURSIVE MakeBuffer(_)
MakeBuffer(bufferSize) ==
  IF bufferSize <= 0 THEN <<>>
  ELSE IF bufferSize = 1 THEN (0 :> 0)
  ELSE MakeBuffer(bufferSize - 1) @@ ((bufferSize - 1) :> 0)

New(clockFreq, sampleRate, bufferSize, config) ==
  LET feedbackShift == config.LFSRBits - 1
      lfsrInitial == U16(Pow2(feedbackShift))
      toneZeroValue == IF config.ToneZero = ToneZeroAs1024 THEN 1024 ELSE 1
  IN [ toneReg |-> Zero3,
       toneCounter |-> Zero3,
       toneOutput |-> False3,
       noiseReg |-> 0,
       noiseCounter |-> 0,
       noiseShift |-> lfsrInitial,
       noiseToggle |-> FALSE,
       noiseOut |-> FALSE,
       volume |-> Silent4,
       latchedChannel |-> 0,
       latchedType |-> 0,
       feedbackShift |-> feedbackShift,
       lfsrInitial |-> lfsrInitial,
       whiteNoiseTaps |-> config.WhiteNoiseTaps,
       toneZeroValue |-> toneZeroValue,
       clocksPerSample |-> F64Div(clockFreq, sampleRate),
       clockCounter |-> F64Zero,
       clockDivider |-> 0,
       gain |-> 1,
       channelBuffers |-> (0 :> MakeBuffer(bufferSize) @@ 1 :> MakeBuffer(bufferSize)
                           @@ 2 :> MakeBuffer(bufferSize) @@ 3 :> MakeBuffer(bufferSize)),
       mixBuffer |-> MakeBuffer(bufferSize),
       bufferPos |-> 0 ]

\* a Reset that leaves the prescaler as it is
ResetKeepingPrescaler(s) ==
  [s EXCEPT !.toneReg = Zero3,
            !.toneCounter = Zero3,
            !.toneOutput = False3,
            !.noiseReg = 0,
            !.noiseCounter = 0,
            !.noiseShift = s.lfsrInitial,
            !.noiseOut = FALSE,
            !.volume = Silent4,
            !.latchedChannel = 0,
            !.latchedType = 0,
            !.noiseToggle = FALSE,
            !.clockCounter = F64Zero,
            !.bufferPos = 0]

\* a Reset that leaves the noise generator and the sample buffer position
\* as they are
ResetKeepingNoise(s) ==
  [s EXCEPT !.toneReg = Zero3,
            !.toneCounter = Zero3,
            !.toneOutput = False3,
            !.volume = Silent4,
            !.latchedChannel = 0,
            !.latchedType = 0,
            !.clockDivider = 0,
            !.clockCounter = F64Zero]

Reset(s) ==
  [s EXCEPT !.toneReg = Zero3,
            !.toneCounter = Zero3,
            !.toneOutput = False3,
            !.noiseReg = 0,
            !.noiseCounter = 0,
            !.noiseShift = s.lfsrInitial,
            !.noiseToggle = FALSE,
            !.noiseOut = FALSE,
            !.volume = Silent4,
            !.latchedChannel = 0,
            !.latchedType = 0,
            !.clockDivider = 0,
            !.clockCounter = F64Zero,
            !.bufferPos = 0]

---------------------------------------------------------------------------
(* Write port. *)

\* a latch byte that stores its nibble as the whole tone register
WriteLatchWholeRegister(s, value) ==
  LET latchedChannel == Shr(value, 5) % 4
      latchedType == Shr(value, 4) % 2
      data == value % 16
      l == [s EXCEPT !.latchedChannel = latchedChannel,
                     !.latchedType = latchedType]
  IN IF latchedType = 1
       THEN [l EXCEPT !.volume[latchedChannel] = data]
       ELSE IF latchedChannel < 3
              THEN [l EXCEPT !.toneReg[latchedChannel] = data]
              ELSE [l EXCEPT !.noiseReg = data % 8,
                             !.noiseShift = s.lfsrInitial]

\* a latch byte for a tone register that also restarts that channel's
\* counter
WriteLatchRestartingCounter(s, value) ==
  LET latchedChannel == Shr(value, 5) % 4
      latchedType == Shr(value, 4) % 2
      data == value % 16
      l == [s EXCEPT !.latchedChannel = latchedChannel,
                     !.latchedType = latchedType]
  IN IF latchedType = 1
       THEN [l EXCEPT !.volume[latchedChannel] = data]
       ELSE IF latchedChannel < 3
              THEN [l EXCEPT !.toneReg[latchedChannel] =
                      (Shr(s.toneReg[latchedChannel] % 1024, 4) * 16) + data,
                             !.toneCounter[latchedChannel] = 0]
              ELSE [l EXCEPT !.noiseReg = data % 8,
                             !.noiseShift = s.lfsrInitial]

\* the latch/data byte branch of Write: 1 CC T DDDD
WriteLatch(s, value) ==
  LET latchedChannel == Shr(value, 5) % 4
      latchedType == Shr(value, 4) % 2
      data == value % 16
      l == [s EXCEPT !.latchedChannel = latchedChannel,
                     !.latchedType = latchedType]
  IN IF latchedType = 1
       THEN [l EXCEPT !.volume[latchedChannel] = data]
       ELSE IF latchedChannel < 3
              THEN [l EXCEPT !.toneReg[latchedChannel] =
                      \* (toneReg & 0x3F0) | data
                      (Shr(s.toneReg[latchedChannel] % 1024, 4) * 16) + data]
              ELSE [l EXCEPT !.noiseReg = data % 8,
                             !.noiseShift = s.lfsrInitial]

\* a data byte that clears the low nibble of the tone register
WriteDataHighBitsOnly(s, value) ==
  IF s.latchedType = 0
    THEN IF s.latchedChannel < 3
           THEN [s EXCEPT !.toneReg[s.latchedChannel] = (value % 64) * 16]
           ELSE [s EXCEPT !.noiseReg = value % 8,
                          !.noiseShift = s.lfsrInitial]
    ELSE s

\* a data byte that is applied whatever the latched type is
WriteDataAnyType(s, value) ==
  IF s.latchedChannel < 3
    THEN [s EXCEPT !.toneReg[s.latchedChannel] =
            (s.toneReg[s.latchedChannel] % 16) + (value % 64) * 16]
    ELSE [s EXCEPT !.noiseReg = value % 8,
                   !.noiseShift = s.lfsrInitial]

\* a data byte that leaves the LFSR running when it sets the noise register
WriteDataKeepingLfsr(s, value) ==
  IF s.latchedType = 0
    THEN IF s.latchedChannel < 3
           THEN [s EXCEPT !.toneReg[s.latchedChannel] =
                   (s.toneReg[s.latchedChannel] % 16) + (value % 64) * 16]
           ELSE [s EXCEPT !.noiseReg = value % 8]
    ELSE s

\* a data byte that takes seven data bits instead of six
WriteDataSevenBits(s, value) ==
  IF s.latchedType = 0
    THEN IF s.latchedChannel < 3
           THEN [s EXCEPT !.toneReg[s.latchedChannel] =
                   (s.toneReg[s.latchedChannel] % 16) + (value % 128) * 16]
           ELSE [s EXCEPT !.noiseReg = value % 8,
                          !.noiseShift = s.lfsrInitial]
    ELSE s

\* the data byte branch of Write: 0 X DDDDDD
WriteData(s, value) ==
  IF s.latchedType = 0
    THEN IF s.latchedChannel < 3
           THEN LET data == value % 64
                IN [s EXCEPT !.toneReg[s.latchedChannel] =
                      \* (toneReg & 0x0F) | (data << 4)
                      (s.toneReg[s.latchedChannel] % 16) + data * 16]
           ELSE [s EXCEPT !.noiseReg = value % 8,
                          !.noiseShift = s.lfsrInitial]
    ELSE s

\* a Write that also rewinds the sample buffer
WriteRewinding(s, value) ==
  [(IF Bit(value, 7) # 0 THEN WriteLatch(s, value) ELSE WriteData(s, value))
     EXCEPT !.bufferPos = 0]

Write(s, value) ==
  IF Bit(value, 7) # 0 THEN WriteLatch(s, value) ELSE WriteData(s, value)

---------------------------------------------------------------------------
(* Clock: prescaler, tone generators, noise generator. *)

\* a tone tick that reloads an expired counter with the register itself,
\* also when the register is 0
ToneTickReloadingRegister(s, i) ==
  IF s.toneCounter[i] > 0
    THEN [s EXCEPT !.toneCounter[i] = s.toneCounter[i] - 1]
    ELSE [s EXCEPT !.toneCounter[i] = s.toneReg[i],
                   !.toneOutput[i] = ~s.toneOutput[i]]

\* a tone tick that reloads an expired counter with the register plus one
ToneTickReloadingSuccessor(s, i) ==
  IF s.toneCounter[i] > 0
    THEN [s EXCEPT !.toneCounter[i] = s.toneCounter[i] - 1]
    ELSE [s EXCEPT !.toneCounter[i] =
                     IF s.toneReg[i] = 0 THEN s.toneZeroValue
                     ELSE s.toneReg[i] + 1,
                   !.toneOutput[i] = ~s.toneOutput[i]]

\* one iteration of the tone loop of Clock: channel i at an internal tick
ToneTick(s, i) ==
  IF s.toneCounter[i] > 0
    THEN [s EXCEPT !.toneCounter[i] = s.toneCounter[i] - 1]
    ELSE [s EXCEPT !.toneCounter[i] =
                     IF s.toneReg[i] = 0 THEN s.toneZeroValue ELSE s.toneReg[i],
                   !.toneOutput[i] = ~s.toneOutput[i]]

\* a reload value that does not follow tone register 2 at rate 3
NoiseReloadFixed(s) ==
  LET rate == s.noiseReg % 4
  IN CASE rate = 0 -> 16
       [] rate = 1 -> 32
       [] rate = 2 -> 64
       [] OTHER -> 128

\* the reload value of the noise counter, from the rate field
NoiseReload(s) ==
  LET rate == s.noiseReg % 4
  IN CASE rate = 0 -> 16
       [] rate = 1 -> 32
       [] rate = 2 -> 64
       [] OTHER -> IF s.toneReg[2] = 0 THEN s.toneZeroValue ELSE s.toneReg[2]

\* parity of the tapped bits: the xor fold of Clock
Parity(tapped) ==
  LET t8 == Xor16(tapped, Shr(tapped, 8))
      t4 == Xor16(t8, Shr(t8, 4))
      t2 == Xor16(t4, Shr(t4, 2))
      t1 == Xor16(t2, Shr(t2, 1))
  IN t1 % 2

\* an LFSR without feedback: zeroes are shifted in
FeedbackNone(s) == 0

\* a feedback bit that always lands in bit 15, whatever the LFSR width is
FeedbackAtBit15(s) ==
  IF Bit(s.noiseReg, 2) # 0
    THEN U16(Parity(And16(s.noiseShift, s.whiteNoiseTaps)) * Pow2(15))
    ELSE U16((s.noiseShift % 2) * Pow2(15))

\* the feedback bit of the LFSR, already shifted into place
Feedback(s) ==
  IF Bit(s.noiseReg, 2) # 0
    THEN U16(Parity(And16(s.noiseShift, s.whiteNoiseTaps)) * Pow2(s.feedbackShift))
    ELSE U16((s.noiseShift % 2) * Pow2(s.feedbackShift))

\* the LFSR after one shift
LfsrShift(s) == Or16(Shr(s.noiseShift, 1), Feedback(s))

\* a noise channel that shifts the LFSR on every expiry of its counter
NoiseTickEveryExpiry(s) ==
  IF s.noiseCounter > 0
    THEN [s EXCEPT !.noiseCounter = s.noiseCounter - 1]
    ELSE [s EXCEPT !.noiseCounter = NoiseReload(s),
                   !.noiseToggle = ~s.noiseToggle,
                   !.noiseOut = (s.noiseShift % 2) # 0,
                   !.noiseShift = LfsrShift(s)]

\* a noise channel that captures its output bit after the shift
NoiseTickCaptureAfterShift(s) ==
  IF s.noiseCounter > 0
    THEN [s EXCEPT !.noiseCounter = s.noiseCounter - 1]
    ELSE LET toggle == ~s.noiseToggle
             r == [s EXCEPT !.noiseCounter = NoiseReload(s),
                            !.noiseToggle = toggle]
         IN IF toggle
              THEN [r EXCEPT !.noiseOut = (LfsrShift(s) % 2) # 0,
                             !.noiseShift = LfsrShift(s)]
              ELSE r

\* the noise channel at an internal tick
NoiseTick(s) ==
  IF s.noiseCounter > 0
    THEN [s EXCEPT !.noiseCounter = s.noiseCounter - 1]
    ELSE LET toggle == ~s.noiseToggle
             r == [s EXCEPT !.noiseCounter = NoiseReload(s),
                            !.noiseToggle = toggle]
         IN IF toggle
              THEN [r EXCEPT !.noiseOut = (s.noiseShift % 2) # 0,
                             !.noiseShift = LfsrShift(s)]
              ELSE r

\* an internal tick: the three tone channels, then the noise channel
InternalTick(s) == NoiseTick(ToneTick(ToneTick(ToneTick(s, 0), 1), 2))

\* a Clock whose prescaler divides by 15
ClockDividingBy15(s) ==
  LET d == s.clockDivider + 1
  IN IF d < 15
       THEN [s EXCEPT !.clockDivider = d]
       ELSE InternalTick([s EXCEPT !.clockDivider = 0])

Clock(s) ==
  LET d == s.clockDivider + 1
  IN IF d < 16
       THEN [s EXCEPT !.clockDivider = d]
       ELSE InternalTick([s EXCEPT !.clockDivider = 0])

---------------------------------------------------------------------------
(* Mixer, resampler and frame driver. *)

\* a channel level whose noise part reads the live bit 0 of the LFSR
ChannelLevelLiveBit(s, ch) ==
  IF ch < 3
    THEN IF s.toneOutput[ch] THEN volumeTable[s.volume[ch]] ELSE 0
    ELSE IF s.noiseShift % 2 # 0 THEN volumeTable[s.volume[3]] ELSE 0

\* a channel level with the gain applied
ChannelLevelWithGain(s, ch) ==
  IF ch < 3
    THEN IF s.toneOutput[ch] THEN volumeTable[s.volume[ch]] * s.gain ELSE 0
    ELSE IF s.noiseOut THEN volumeTable[s.volume[3]] * s.gain ELSE 0

\* a channel level that is minus the amplitude while the output is LOW
ChannelLevelBipolar(s, ch) ==
  IF ch < 3
    THEN IF s.toneOutput[ch] THEN volumeTable[s.volume[ch]]
         ELSE 0 - volumeTable[s.volume[ch]]
    ELSE IF s.noiseOut THEN volumeTable[s.volume[3]]
         ELSE 0 - volumeTable[s.volume[3]]

\* the amplitude channel ch contributes now: volumeTable[volume] if HIGH
ChannelLevel(s, ch) ==
  IF ch < 3
    THEN IF s.toneOutput[ch] THEN volumeTable[s.volume[ch]] ELSE 0
    ELSE IF s.noiseOut THEN volumeTable[s.volume[3]] ELSE 0

\* a bipolar mix: a channel whose output is LOW contributes minus its level
SampleBipolar(s) ==
  LET level(ch) == IF ch < 3
                     THEN IF s.toneOutput[ch] THEN volumeTable[s.volume[ch]]
                          ELSE 0 - volumeTable[s.volume[ch]]
                     ELSE IF s.noiseOut THEN volumeTable[s.volume[3]]
                          ELSE 0 - volumeTable[s.volume[3]]
  IN (level(0) + level(1) + level(2) + level(3)) * s.gain

Sample(s) ==
  (ChannelLevel(s, 0) + ChannelLevel(s, 1) + ChannelLevel(s, 2)
     + ChannelLevel(s, 3)) * s.gain

\* a ResetBuffer that also restarts the sample accumulator
ResetBufferRestartingAccumulator(s) ==
  [s EXCEPT !.bufferPos = 0, !.clockCounter = F64Zero]

ResetBuffer(s) == [s EXCEPT !.bufferPos = 0]

BufLen(buf) == Cardinality(DOMAIN buf)

\* an emission that does not count the sample it drops
RunEmitUncounted(e, dropped) ==
  IF e.bufferPos < BufLen(e.mixBuffer)
    THEN <<[e EXCEPT
              !.channelBuffers[0][e.bufferPos] = ChannelLevel(e, 0),
              !.channelBuffers[1][e.bufferPos] = ChannelLevel(e, 1),
              !.channelBuffers[2][e.bufferPos] = ChannelLevel(e, 2),
              !.channelBuffers[3][e.bufferPos] = ChannelLevel(e, 3),
              !.bufferPos = e.bufferPos + 1],
           dropped>>
    ELSE <<e, dropped>>

\* an emission that treats the buffers as rings: when they are full it
\* starts again at position 0
RunEmitWrapping(e, dropped) ==
  LET at == IF e.bufferPos < BufLen(e.mixBuffer) THEN e.bufferPos ELSE 0
  IN <<[e EXCEPT
          !.channelBuffers[0][at] = ChannelLevel(e, 0),
          !.channelBuffers[1][at] = ChannelLevel(e, 1),
          !.channelBuffers[2][at] = ChannelLevel(e, 2),
          !.channelBuffers[3][at] = ChannelLevel(e, 3),
          !.bufferPos = at + 1],
       dropped>>

\* the emission of Run from engine e, whose accumulator has given up a
\* sample period: the sample is stored where there is room and counted as
\* dropped where there is none
RunEmit(e, dropped) ==
  IF e.bufferPos < BufLen(e.mixBuffer)
    THEN <<[e EXCEPT
              !.channelBuffers[0][e.bufferPos] = ChannelLevel(e, 0),
              !.channelBuffers[1][e.bufferPos] = ChannelLevel(e, 1),
              !.channelBuffers[2][e.bufferPos] = ChannelLevel(e, 2),
              !.channelBuffers[3][e.bufferPos] = ChannelLevel(e, 3),
              !.bufferPos = e.bufferPos + 1],
           dropped>>
    ELSE <<e, dropped + 1>>

\* a test that emits only once the accumulator exceeds the sample period
RunCompareStrict(c, cc, dropped) ==
  IF ~F64Ge(c.clocksPerSample, cc)
    THEN RunEmit([c EXCEPT !.clockCounter = F64Sub(cc, c.clocksPerSample)],
                 dropped)
    ELSE <<[c EXCEPT !.clockCounter = cc], dropped>>

\* the test of the loop of Run on the incremented accumulator cc of the
\* clocked engine c: if cc >= clocksPerSample, cc -= clocksPerSample and a
\* sample is emitted
RunCompare(c, cc, dropped) ==
  IF F64Ge(cc, c.clocksPerSample)
    THEN RunEmit([c EXCEPT !.clockCounter = F64Sub(cc, c.clocksPerSample)],
                 dropped)
    ELSE <<[c EXCEPT !.clockCounter = cc], dropped>>

\* clockCounter++ on the clocked engine c, and the test that follows it
RunCount(c, dropped) ==
  RunCompare(c, F64Add(c.clockCounter, F64One), dropped)

\* one iteration of the loop of Run: <<engine, dropped>>
RunIter(s, dropped) == RunCount(Clock(s), dropped)

\* y, once x has been evaluated: the model checker evaluates operator
\* arguments on demand, and a loop whose iterations are evaluated only when
\* its result is read nests as deep as the loop is long
Then(x, y) == IF x = x THEN y ELSE y

\* the loop of Run, i iterations from engine s with dropped samples dropped so
\* far: the first half of the iterations, then the rest
RECURSIVE RunLoop(_, _, _)
RunLoop(s, i, dropped) ==
  IF i <= 0 THEN <<s, dropped>>
  ELSE IF i = 1 THEN RunIter(s, dropped)
  ELSE LET r == RunLoop(s, i \div 2, dropped)
       IN Then(r, RunLoop(r[1], i - (i \div 2), r[2]))

\* a Run that restarts the sample accumulator on every call
RunRestartingAccumulator(s, clocks) ==
  RunLoop([s EXCEPT !.clockCounter = F64Zero], clocks, 0)

\* Run(clocks): <<engine, dropped>>
Run(s, clocks) == RunLoop(s, clocks, 0)

\* a GenerateSamples that appends to the samples already in the buffers
GenerateSamplesAppending(s, clocks) == Run(s, clocks)

\* GenerateSamples(clocks): <<engine, dropped>>
GenerateSamples(s, clocks) == Run(ResetBuffer(s), clocks)

\* a GetBuffer that sums the channels without applying the gain
GetBufferUnscaled(s) ==
  [s EXCEPT !.mixBuffer =
     [i \in DOMAIN s.mixBuffer |->
        IF i < s.bufferPos
          THEN s.channelBuffers[0][i] + s.channelBuffers[1][i]
                 + s.channelBuffers[2][i] + s.channelBuffers[3][i]
          ELSE s.mixBuffer[i]]]

\* GetBuffer: the engine with its mixBuffer refilled; the count is bufferPos
\* a GetBuffer that hands the samples over and rewinds the buffers
GetBufferRewinding(s) ==
  [s EXCEPT !.mixBuffer =
     [i \in DOMAIN s.mixBuffer |->
        IF i < s.bufferPos
          THEN (s.channelBuffers[0][i] + s.channelBuffers[1][i]
                  + s.channelBuffers[2][i] + s.channelBuffers[3][i]) * s.gain
          ELSE s.mixBuffer[i]],
            !.bufferPos = 0]

GetBuffer(s) ==
  [s EXCEPT !.mixBuffer =
     [i \in DOMAIN s.mixBuffer |->
        IF i < s.bufferPos
          THEN (s.channelBuffers[0][i] + s.channelBuffers[1][i]
                  + s.channelBuffers[2][i] + s.channelBuffers[3][i]) * s.gain
          ELSE s.mixBuffer[i]]]

GetChannelBuffers(s) == <<s.channelBuffers, s.bufferPos>>

\* the accessors: what each returns
GetGain(s) == s.gain

ClocksPerSample(s) == s.clocksPerSample

GetToneReg(s, ch) == s.toneReg[ch]

GetVolume(s, ch) == s.volume[ch]

GetNoiseReg(s) == s.noiseReg

GetNoiseShift(s) == s.noiseShift

SetGain(s, gain) == [s EXCEPT !.gain = gain]

---------------------------------------------------------------------------
(* State snapshot (serialize.go).  A byte buffer is a function over        *)
(* 0 .. len-1.  serialize.go names the captured noise bit noiseOutput; the *)
(* struct declares it noiseOut, and that is the field read and written.    *)

serializeVersion == 1
sn76489SerializeSize == 40

boolByte(b) == IF b THEN 1 ELSE 0

\* binary.LittleEndian.PutUint16(buf[at:], v)
PutUint16(buf, at, v) ==
  [buf EXCEPT ![at] = v % 256, ![at + 1] = (v \div 256) % 256]

\* binary.LittleEndian.Uint16(buf[at:])
Uint16(buf, at) == buf[at] + 256 * buf[at + 1]

\* binary.LittleEndian.PutUint32(buf[at:], uint32(int32(v))): two's complement
PutUint32(buf, at, v) ==
  LET lo == v % 65536                 \* low 16 bits (% is non-negative)
      hi == ((v - lo) \div 65536) % 65536
  IN [buf EXCEPT ![at] = lo % 256, ![at + 1] = lo \div 256,
                 ![at + 2] = hi % 256, ![at + 3] = hi \div 256]

\* int(int32(binary.LittleEndian.Uint32(buf[at:])))
Int32At(buf, at) ==
  LET top == IF buf[at + 3] >= 128 THEN buf[at + 3] - 256 ELSE buf[at + 3]
  IN buf[at] + 256 * buf[at + 1] + 65536 * buf[at + 2] + 16777216 * top

\* binary.LittleEndian.PutUint64(buf[at:], bits), bits as eight bytes
PutFloat64(buf, at, bytes) ==
  [buf EXCEPT ![at] = bytes[1], ![at + 1] = bytes[2], ![at + 2] = bytes[3],
              ![at + 3] = bytes[4], ![at + 4] = bytes[5], ![at + 5] = bytes[6],
              ![at + 6] = bytes[7], ![at + 7] = bytes[8]]

ErrNone == "nil"
ErrSerializeSmall == "sn76489: serialize buffer too small"
ErrDeserializeSmall == "sn76489: deserialize buffer too small"
ErrVersion == "sn76489: unsupported serialize version"

\* a Serialize that stamps the version byte before it checks the length
SerializeVersionFirst(s, buf) ==
  IF BufLen(buf) = 0 THEN <<buf, ErrSerializeSmall>>
  ELSE IF BufLen(buf) < sn76489SerializeSize
    THEN <<[buf EXCEPT ![0] = serializeVersion], ErrSerializeSmall>>
  ELSE <<[i \in DOMAIN buf |-> IF i = 0 THEN serializeVersion ELSE buf[i]],
         ErrNone>>

\* a Serialize that stores the noise toggle, not the captured noise bit,
\* at offset 21
SerializeToggleAt21(s, buf) ==
  IF BufLen(buf) < sn76489SerializeSize THEN <<buf, ErrSerializeSmall>>
  ELSE
    LET b0 == [buf EXCEPT ![0] = serializeVersion]
        b1 == PutUint16(PutUint16(PutUint16(b0, 1, s.toneReg[0]),
                                  3, s.toneReg[1]), 5, s.toneReg[2])
        b2 == PutUint16(PutUint16(PutUint16(b1, 7, s.toneCounter[0]),
                                  9, s.toneCounter[1]), 11, s.toneCounter[2])
        b3 == [b2 EXCEPT ![13] = boolByte(s.toneOutput[0]),
                         ![14] = boolByte(s.toneOutput[1]),
                         ![15] = boolByte(s.toneOutput[2]),
                         ![16] = s.noiseReg]
        b4 == PutUint16(PutUint16(b3, 17, s.noiseCounter), 19, s.noiseShift)
        b5 == [b4 EXCEPT ![21] = boolByte(s.noiseToggle),
                         ![22] = s.volume[0], ![23] = s.volume[1],
                         ![24] = s.volume[2], ![25] = s.volume[3],
                         ![26] = s.latchedChannel,
                         ![27] = s.latchedType]
        b6 == PutUint32(b5, 28, s.clockDivider)
    IN <<PutFloat64(b6, 32, Float64bits(s.clockCounter)),
         ErrNone>>

\* Serialize(buf): <<buf afterwards, error>>
Serialize(s, buf) ==
  IF BufLen(buf) < sn76489SerializeSize THEN <<buf, ErrSerializeSmall>>
  ELSE
    LET b0 == [buf EXCEPT ![0] = serializeVersion]
        b1 == PutUint16(PutUint16(PutUint16(b0, 1, s.toneReg[0]),
                                  3, s.toneReg[1]), 5, s.toneReg[2])
        b2 == PutUint16(PutUint16(PutUint16(b1, 7, s.toneCounter[0]),
                                  9, s.toneCounter[1]), 11, s.toneCounter[2])
        b3 == [b2 EXCEPT ![13] = boolByte(s.toneOutput[0]),
                         ![14] = boolByte(s.toneOutput[1]),
                         ![15] = boolByte(s.toneOutput[2]),
                         ![16] = s.noiseReg]
        b4 == PutUint16(PutUint16(b3, 17, s.noiseCounter), 19, s.noiseShift)
        b5 == [b4 EXCEPT ![21] = boolByte(s.noiseOut),
                         ![22] = s.volume[0], ![23] = s.volume[1],
                         ![24] = s.volume[2], ![25] = s.volume[3],
                         ![26] = s.latchedChannel,
                         ![27] = s.latchedType]
        b6 == PutUint32(b5, 28, s.clockDivider)
    IN <<PutFloat64(b6, 32, Float64bits(s.clockCounter)),
         ErrNone>>

\* a Deserialize that rewinds the sample buffer before it checks its input
DeserializeRewindingFirst(s, buf) ==
  IF BufLen(buf) < sn76489SerializeSize THEN <<[s EXCEPT !.bufferPos = 0], ErrDeserializeSmall>>
  ELSE IF buf[0] # serializeVersion THEN <<[s EXCEPT !.bufferPos = 0], ErrVersion>>
  ELSE
    <<[s EXCEPT
         !.toneReg[0] = Uint16(buf, 1),
         !.toneReg[1] = Uint16(buf, 3),
         !.toneReg[2] = Uint16(buf, 5),
         !.toneCounter[0] = Uint16(buf, 7),
         !.toneCounter[1] = Uint16(buf, 9),
         !.toneCounter[2] = Uint16(buf, 11),
         !.toneOutput[0] = buf[13] # 0,
         !.toneOutput[1] = buf[14] # 0,
         !.toneOutput[2] = buf[15] # 0,
         !.noiseReg = buf[16],
         !.noiseCounter = Uint16(buf, 17),
         !.noiseShift = Uint16(buf, 19),
         !.noiseOut = buf[21] # 0,
         !.volume[0] = buf[22],
         !.volume[1] = buf[23],
         !.volume[2] = buf[24],
         !.volume[3] = buf[25],
         !.latchedChannel = buf[26],
         !.latchedType = buf[27],
         !.clockDivider = Int32At(buf, 28),
         !.clockCounter = Float64frombits(buf, 32),
         !.bufferPos = 0],
      ErrNone>>

\* a Deserialize that does not restore the latched register type
DeserializeDroppingLatch(s, buf) ==
  IF BufLen(buf) < sn76489SerializeSize THEN <<s, ErrDeserializeSmall>>
  ELSE IF buf[0] # serializeVersion THEN <<s, ErrVersion>>
  ELSE
    <<[s EXCEPT
         !.toneReg[0] = Uint16(buf, 1),
         !.toneReg[1] = Uint16(buf, 3),
         !.toneReg[2] = Uint16(buf, 5),
         !.toneCounter[0] = Uint16(buf, 7),
         !.toneCounter[1] = Uint16(buf, 9),
         !.toneCounter[2] = Uint16(buf, 11),
         !.toneOutput[0] = buf[13] # 0,
         !.toneOutput[1] = buf[14] # 0,
         !.toneOutput[2] = buf[15] # 0,
         !.noiseReg = buf[16],
         !.noiseCounter = Uint16(buf, 17),
         !.noiseShift = Uint16(buf, 19),
         !.noiseOut = buf[21] # 0,
         !.volume[0] = buf[22],
         !.volume[1] = buf[23],
         !.volume[2] = buf[24],
         !.volume[3] = buf[25],
         !.latchedChannel = buf[26],
         !.clockDivider = Int32At(buf, 28),
         !.clockCounter = Float64frombits(buf, 32),
         !.bufferPos = 0],
      ErrNone>>

\* a Deserialize that leaves the sample buffer position where it was
DeserializeKeepingBufferPos(s, buf) ==
  IF BufLen(buf) < sn76489SerializeSize THEN <<s, ErrDeserializeSmall>>
  ELSE IF buf[0] # serializeVersion THEN <<s, ErrVersion>>
  ELSE
    <<[s EXCEPT
         !.toneReg[0] = Uint16(buf, 1),
         !.toneReg[1] = Uint16(buf, 3),
         !.toneReg[2] = Uint16(buf, 5),
         !.toneCounter[0] = Uint16(buf, 7),
         !.toneCounter[1] = Uint16(buf, 9),
         !.toneCounter[2] = Uint16(buf, 11),
         !.toneOutput[0] = buf[13] # 0,
         !.toneOutput[1] = buf[14] # 0,
         !.toneOutput[2] = buf[15] # 0,
         !.noiseReg = buf[16],
         !.noiseCounter = Uint16(buf, 17),
         !.noiseShift = Uint16(buf, 19),
         !.noiseOut = buf[21] # 0,
         !.volume[0] = buf[22],
         !.volume[1] = buf[23],
         !.volume[2] = buf[24],
         !.volume[3] = buf[25],
         !.latchedChannel = buf[26],
         !.latchedType = buf[27],
         !.clockDivider = Int32At(buf, 28),
         !.clockCounter = Float64frombits(buf, 32)],
      ErrNone>>

\* Deserialize(buf): <<engine afterwards, error>>
Deserialize(s, buf) ==
  IF BufLen(buf) < sn76489SerializeSize THEN <<s, ErrDeserializeSmall>>
  ELSE IF buf[0] # serializeVersion THEN <<s, ErrVersion>>
  ELSE
    <<[s EXCEPT
         !.toneReg[0] = Uint16(buf, 1),
         !.toneReg[1] = Uint16(buf, 3),
         !.toneReg[2] = Uint16(buf, 5),
         !.toneCounter[0] = Uint16(buf, 7),
         !.toneCounter[1] = Uint16(buf, 9),
         !.toneCounter[2] = Uint16(buf, 11),
         !.toneOutput[0] = buf[13] # 0,
         !.toneOutput[1] = buf[14] # 0,
         !.toneOutput[2] = buf[15] # 0,
         !.noiseReg = buf[16],
         !.noiseCounter = Uint16(buf, 17),
         !.noiseShift = Uint16(buf, 19),
         !.noiseOut = buf[21] # 0,
         !.volume[0] = buf[22],
         !.volume[1] = buf[23],
         !.volume[2] = buf[24],
         !.volume[3] = buf[25],
         !.latchedChannel = buf[26],
         !.latchedType = buf[27],
         !.clockDivider = Int32At(buf, 28),
         !.clockCounter = Float64frombits(buf, 32),
         !.bufferPos = 0],
      ErrNone>>

\* a zeroed byte buffer of n bytes
RECURSIVE Bytes(_)
Bytes(n) == IF n <= 0 THEN <<>>
            ELSE IF n = 1 THEN (0 :> 0)
            ELSE Bytes(n - 1) @@ ((n - 1) :> 0)

---------------------------------------------------------------------------
(* The general specification: an engine of either variant driven by any    *)
(* sequence of at most MaxOps calls.  pre is the engine before the last    *)
(* call, op the call and ret the value it returned.                        *)

\* the clock of the engines checked: clock_freq / sample_rate = 21 / 2, that
\* is 10.5 input clocks per sample
ClockConfig == [clockFreq |-> 21, sampleRate |-> 2]

\* the engines a behaviour starts from: New, for either variant
Engines ==
  {New(ClockConfig.clockFreq, ClockConfig.sampleRate, BufferSize, v) :
     v \in Variants}

\* bytes written by the general specification
\*   0x82 ch0 tone low nibble 2     0x01 data byte 1
\*   0x90 ch0 volume 0 (max)        0xB4 ch1 volume 4
\*   0xE7 noise: white, rate 3      0xF0 noise volume 0 (max)
WriteBytes == {130, 1, 144, 180, 231, 240}

\* clock counts handed to Run and GenerateSamples
RunClocks == {16, 21}

\* gains handed to SetGain, in units of 1/4
Gains == {2, 4}

Call(name, arg) == [name |-> name, arg |-> arg]

Init ==
  /\ chip \in Engines
  /\ ref = chip
  /\ pre = chip
  /\ op = Call("New", 0)
  /\ ret = 0
  /\ phase = "run"
  /\ nops = 0

\* the bookkeeping every call of the general specification shares
Called(name, arg, result) ==
  /\ nops < MaxOps
  /\ nops' = nops + 1
  /\ pre' = chip
  /\ op' = Call(name, arg)
  /\ ret' = result
  /\ UNCHANGED <<ref, phase>>

DoWrite(value) ==
  /\ chip' = Write(chip, value)
  /\ Called("Write", value, 0)

DoClock ==
  /\ chip' = Clock(chip)
  /\ Called("Clock", 0, 0)

DoRun(clocks) ==
  LET r == Run(chip, clocks)
  IN /\ chip' = r[1]
     /\ Called("Run", clocks, r[2])

DoGenerateSamples(clocks) ==
  LET r == GenerateSamples(chip, clocks)
  IN /\ chip' = r[1]
     /\ Called("GenerateSamples", clocks, r[2])

DoReset ==
  /\ chip' = Reset(chip)
  /\ Called("Reset", 0, 0)

DoResetBuffer ==
  /\ chip' = ResetBuffer(chip)
  /\ Called("ResetBuffer", 0, 0)

DoSetGain(gain) ==
  /\ chip' = SetGain(chip, gain)
  /\ Called("SetGain", gain, 0)

DoGetBuffer ==
  /\ chip' = GetBuffer(chip)
  /\ Called("GetBuffer", 0, chip.bufferPos)

Next ==
  \/ \E value \in WriteBytes : DoWrite(value)
  \/ DoClock
  \/ \E clocks \in RunClocks : DoRun(clocks)
  \/ \E clocks \in RunClocks : DoGenerateSamples(clocks)
  \/ DoReset
  \/ DoResetBuffer
  \/ \E gain \in Gains : DoSetGain(gain)
  \/ DoGetBuffer

Spec == Init /\ [][Next]_vars

---------------------------------------------------------------------------
(* The save/load specification: an engine is driven for at most MaxSetup   *)
(* calls, its snapshot is loaded into a freshly constructed engine (ref)   *)
(* of the same configuration, and from then on both engines are handed the *)
(* same script, at most MaxScript calls that start with GenerateSamples.   *)

MaxSetup == 3
MaxScript == 3

\* bytes written while the original engine is set up, and by the script
\*   0xE7 noise: white, rate 3      0xF0 noise volume 0 (max)
RtBytes == {231, 240}

\* clock counts of the set-up and of the script
RtSetupClocks == {16}
RtScriptClocks == {32, 928}

\* a freshly constructed engine with the configuration of s
Fresh(s) ==
  [New(1, 1, BufLen(s.mixBuffer),
       [LFSRBits |-> s.feedbackShift + 1,
        WhiteNoiseTaps |-> s.whiteNoiseTaps,
        ToneZero |-> IF s.toneZeroValue = 1024 THEN ToneZeroAs1024
                     ELSE ToneZeroAsOne])
     EXCEPT !.clocksPerSample = s.clocksPerSample]

InitRt ==
  /\ chip \in Engines
  /\ ref = chip
  /\ pre = chip
  /\ op = Call("New", 0)
  /\ ret = 0
  /\ phase = "orig"
  /\ nops = 0

RtCalled(name, arg, result) ==
  /\ phase = "orig"
  /\ nops < MaxSetup
  /\ nops' = nops + 1
  /\ pre' = chip
  /\ op' = Call(name, arg)
  /\ ret' = result
  /\ UNCHANGED <<ref, phase>>

RtWrite(value) ==
  /\ chip' = Write(chip, value)
  /\ RtCalled("Write", value, 0)

RtRun(clocks) ==
  LET r == Run(chip, clocks)
  IN /\ chip' = r[1]
     /\ RtCalled("Run", clocks, r[2])

\* state := Serialize(chip); ref := New(...); ref.Deserialize(state)
RtSaveLoad ==
  LET saved == Serialize(chip, Bytes(sn76489SerializeSize))
      loaded == Deserialize(Fresh(chip), saved[1])
  IN /\ phase = "orig"
     /\ saved[2] = ErrNone /\ loaded[2] = ErrNone
     /\ ref' = loaded[1]
     /\ phase' = "loaded"
     /\ nops' = 0
     /\ pre' = chip
     /\ op' = Call("SaveLoad", 0)
     /\ ret' = 0
     /\ UNCHANGED chip

\* the bookkeeping of a script call, made on both engines
PairCalled(name, arg, result) ==
  /\ nops < MaxScript
  /\ nops' = nops + 1
  /\ pre' = chip
  /\ op' = Call(name, arg)
  /\ ret' = result
  /\ phase' = "cont"

PairGenerateSamples(clocks) ==
  LET r == GenerateSamples(chip, clocks)
      q == GenerateSamples(ref, clocks)
  IN /\ phase \in {"loaded", "cont"}
     /\ chip' = r[1]
     /\ ref' = q[1]
     /\ PairCalled("GenerateSamples", clocks, <<r[2], q[2]>>)

PairRun(clocks) ==
  LET r == Run(chip, clocks)
      q == Run(ref, clocks)
  IN /\ phase = "cont"
     /\ chip' = r[1]
     /\ ref' = q[1]
     /\ PairCalled("Run", clocks, <<r[2], q[2]>>)

PairWrite(value) ==
  /\ phase = "cont"
  /\ chip' = Write(chip, value)
  /\ ref' = Write(ref, value)
  /\ PairCalled("Write", value, <<0, 0>>)

NextRt ==
  \/ \E value \in RtBytes : RtWrite(value)
  \/ \E clocks \in RtSetupClocks : RtRun(clocks)
  \/ RtSaveLoad
  \/ \E clocks \in RtScriptClocks : PairGenerateSamples(clocks)
  \/ \E clocks \in RtScriptClocks : PairRun(clocks)
  \/ \E value \in RtBytes : PairWrite(value)

SpecRt == InitRt /\ [][NextRt]_vars

\* what GetChannelBuffers hands out: the valid samples of the four buffers
Output(s) ==
  [ch \in 0 .. 3 |-> [i \in 0 .. s.bufferPos - 1 |-> s.channelBuffers[ch][i]]]

\* C1: after a snapshot of any reachable engine is loaded into a fresh
\* engine of the same configuration, the same script of GenerateSamples,
\* Run and Write calls leaves both engines with the same sample count and
\* the same per-channel samples.
C1_RoundTripContinuity ==
  phase = "cont" =>
    /\ chip.bufferPos = ref.bufferPos
    /\ Output(chip) = Output(ref)


---------------------------------------------------------------------------
(* The frame specification: an engine is driven for at most MaxSetup calls, *)
(* then a frame begins with ResetBuffer and a first Run(a).  The frame ends *)
(* either with a second Run(b) on the engine while a second engine (ref),   *)
(* taken at the ResetBuffer, makes the single call Run(a+b); or with a      *)
(* Write followed by a Run(b), ref keeping the engine as Run(a) left it.    *)

\* bytes written in the set-up and in the middle of the frame
\*   0x90 tone 0 volume 0 (max)   0x92 tone 0 volume 2
\*   0xE7 noise: white, rate 3    0xF0 noise volume 0 (max)
FrameBytes == {144, 146, 231, 240}

\* clock counts of the set-up and of the two Run calls of the frame
FrameSetupClocks == {16}
FrameClocks == {0, 5, 16, 21}

InitFrame ==
  /\ chip \in Engines
  /\ ref = chip
  /\ pre = chip
  /\ op = Call("New", 0)
  /\ ret = 0
  /\ phase = "orig"
  /\ nops = 0

\* the bookkeeping of a call of the frame
Noted(name, arg, result) ==
  /\ pre' = chip
  /\ op' = Call(name, arg)
  /\ ret' = result

FrameSetupWrite(value) ==
  /\ phase = "orig"
  /\ nops < MaxSetup
  /\ chip' = Write(chip, value)
  /\ nops' = nops + 1
  /\ Noted("Write", value, 0)
  /\ UNCHANGED <<ref, phase>>

FrameSetupRun(clocks) ==
  LET r == Run(chip, clocks)
  IN /\ phase = "orig"
     /\ nops < MaxSetup
     /\ chip' = r[1]
     /\ nops' = nops + 1
     /\ Noted("Run", clocks, r[2])
     /\ UNCHANGED <<ref, phase>>

\* both engines start the frame from the same state
FrameResetBuffer ==
  /\ phase = "orig"
  /\ chip' = ResetBuffer(chip)
  /\ ref' = ResetBuffer(chip)
  /\ phase' = "reset"
  /\ Noted("ResetBuffer", 0, 0)
  /\ UNCHANGED nops

FrameFirstRun(a) ==
  LET r == Run(chip, a)
  IN /\ phase = "reset"
     /\ chip' = r[1]
     /\ phase' = "first"
     /\ Noted("Run", a, r[2])
     /\ UNCHANGED <<ref, nops>>

\* chip: Run(b) after its Run(a);  ref: the single call Run(a + b)
FrameSecondRun(b) ==
  LET r == Run(chip, b)
      q == Run(ref, op.arg + b)
  IN /\ phase = "first"
     /\ chip' = r[1]
     /\ ref' = q[1]
     /\ phase' = "joined"
     /\ Noted("Run", b, <<ret + r[2], q[2]>>)
     /\ UNCHANGED nops

\* the write in the middle of the frame; ref keeps the engine of Run(a)
FrameWrite(w) ==
  /\ phase = "first"
  /\ chip' = Write(chip, w)
  /\ ref' = chip
  /\ phase' = "written"
  /\ Noted("Write", w, 0)
  /\ UNCHANGED nops

FrameRunAfterWrite(b) ==
  LET r == Run(chip, b)
  IN /\ phase = "written"
     /\ chip' = r[1]
     /\ phase' = "after"
     /\ Noted("Run", b, r[2])
     /\ UNCHANGED <<ref, nops>>

NextFrame ==
  \/ \E value \in FrameBytes : FrameSetupWrite(value)
  \/ \E clocks \in FrameSetupClocks : FrameSetupRun(clocks)
  \/ FrameResetBuffer
  \/ \E a \in FrameClocks : FrameFirstRun(a)
  \/ \E b \in FrameClocks : FrameSecondRun(b)
  \/ \E w \in FrameBytes : FrameWrite(w)
  \/ \E b \in FrameClocks : FrameRunAfterWrite(b)

SpecFrame == InitFrame /\ [][NextFrame]_vars

\* C2: from any engine state, ResetBuffer; Run(a); Run(b) leaves the same
\* per-channel buffer contents and the same bufferPos as ResetBuffer;
\* Run(a+b) from that state (and drops the same number of samples).
C2_RunAccumulates ==
  phase = "joined" =>
    /\ chip.channelBuffers = ref.channelBuffers
    /\ chip.bufferPos = ref.bufferPos
    /\ ret[1] = ret[2]

\* C2 witness: both Run calls of the split frame emitted samples, one of
\* them non-zero.
C2_Witness ==
  /\ phase = "joined"
  /\ 0 < pre.bufferPos
  /\ pre.bufferPos < chip.bufferPos
  /\ \E ch \in 0 .. 3 : \E i \in 0 .. chip.bufferPos - 1 :
       chip.channelBuffers[ch][i] # 0

\* C3: in ResetBuffer; Run(a); Write(w); Run(b) the write changes neither
\* bufferPos nor any sample that Run(a) emitted (ref is the engine as Run(a)
\* left it), Run(b) keeps those samples too, and every sample emitted
\* during Run(b) is a level of the volume registers as they are after w (pre
\* is the engine right after w) and is the sample that Run(b) emits from the
\* post-write engine at the start of a buffer.
C3_MidFrameWrite ==
  /\ phase = "written" =>
       /\ chip.bufferPos = ref.bufferPos
       /\ chip.channelBuffers = ref.channelBuffers
  /\ phase = "after" =>
       LET fromWrite == Run(ResetBuffer(pre), op.arg)[1]
       IN /\ pre.bufferPos = ref.bufferPos
          /\ ref.bufferPos <= chip.bufferPos
          /\ \A ch \in 0 .. 3 :
               /\ \A i \in 0 .. ref.bufferPos - 1 :
                    chip.channelBuffers[ch][i] = ref.channelBuffers[ch][i]
               /\ \A i \in ref.bufferPos .. chip.bufferPos - 1 :
                    /\ chip.channelBuffers[ch][i]
                         \in {0, volumeTable[pre.volume[ch]]}
                    /\ chip.channelBuffers[ch][i]
                         = fromWrite.channelBuffers[ch][i - ref.bufferPos]

\* C3 witness: Run(a) emitted samples, the write changed the volume of tone
\* channel 0, and Run(b) emitted a non-zero sample of channel 0 at the new
\* level.
C3_Witness ==
  /\ phase = "after"
  /\ 0 < ref.bufferPos
  /\ pre.volume[0] # ref.volume[0]
  /\ \E i \in ref.bufferPos .. chip.bufferPos - 1 :
       /\ chip.channelBuffers[0][i] # 0
       /\ chip.channelBuffers[0][i] = volumeTable[pre.volume[0]]
       /\ chip.channelBuffers[0][i] # volumeTable[ref.volume[0]]

---------------------------------------------------------------------------
(* The tone specification (TestGolden_SingleToneChannel and                *)
(* TestGolden_FrequencyAccuracy): a freshly constructed engine has tone    *)
(* register 0 programmed with a latch byte and a data byte, channel 0 set  *)
(* to full volume and the gain to 1.0, and is then clocked; nops counts    *)
(* the Clock calls, 16 to an internal tick.                                *)

\* internal ticks the engine is clocked for
MaxTicks == 44

\* low nibbles and high bits of the programmed tone register
ToneLows == 1 .. 5
ToneHighs == {0, 1}

InitTone ==
  /\ chip \in Engines
  /\ ref = chip
  /\ pre = chip
  /\ op = Call("New", 0)
  /\ ret = 0
  /\ phase = "orig"
  /\ nops = 0

\* chip.Write(0x80 | low)
ToneWriteLow(low) ==
  /\ phase = "orig"
  /\ chip' = Write(chip, 128 + low)
  /\ phase' = "latched"
  /\ Noted("Write", 128 + low, 0)
  /\ UNCHANGED <<ref, nops>>

\* chip.Write(high)
ToneWriteHigh(high) ==
  /\ phase = "latched"
  /\ chip' = Write(chip, high)
  /\ phase' = "programmed"
  /\ Noted("Write", high, 0)
  /\ UNCHANGED <<ref, nops>>

\* chip.Write(0x90)
ToneWriteVolume ==
  /\ phase = "programmed"
  /\ chip' = Write(chip, 144)
  /\ phase' = "audible"
  /\ Noted("Write", 144, 0)
  /\ UNCHANGED <<ref, nops>>

\* chip.SetGain(1.0)
ToneSetGain ==
  /\ phase = "audible"
  /\ chip' = SetGain(chip, 4)
  /\ phase' = "ticking"
  /\ Noted("SetGain", 4, 0)
  /\ UNCHANGED <<ref, nops>>

ToneClock ==
  /\ phase = "ticking"
  /\ nops < 16 * MaxTicks
  /\ chip' = Clock(chip)
  /\ nops' = nops + 1
  /\ Noted("Clock", 0, 0)
  /\ UNCHANGED <<ref, phase>>

NextTone ==
  \/ \E low \in ToneLows : ToneWriteLow(low)
  \/ \E high \in ToneHighs : ToneWriteHigh(high)
  \/ ToneWriteVolume
  \/ ToneSetGain
  \/ ToneClock

SpecTone == InitTone /\ [][NextTone]_vars

\* C4: with tone register N >= 1 programmed from reset, after internal tick
\* t >= 1 the output of the channel is HIGH exactly when (t-1) \div N is
\* even (first toggle at tick 1, then every N ticks: at N+1, 2N+1, ...), and
\* Sample() is the full-volume level when HIGH and 0 when LOW.
C4_ToneHalfPeriod ==
  (phase = "ticking" /\ nops > 0 /\ nops % 16 = 0 /\ chip.toneReg[0] >= 1) =>
    LET t == nops \div 16
        high == ((t - 1) \div chip.toneReg[0]) % 2 = 0
    IN /\ chip.toneOutput[0] = high
       /\ Sample(chip) = IF high THEN 4 * volumeTable[0] ELSE 0

---------------------------------------------------------------------------
(* The write specification: an engine is driven for at most MaxWrSetup     *)
(* calls (writes that latch every register kind, data bytes, a Run that    *)
(* advances the LFSR), then any byte 0 .. 255 is written.  pre and op are  *)
(* the engine before the last call and that call; ref and ret are the      *)
(* engine before the call preceding it and that preceding call.            *)

MaxWrSetup == 2

\* bytes written in the set-up
\*   0x85 tone 0 low nibble 5     0xC2 tone 2 low nibble 2
\*   0x01, 0x3F data bytes        0xE7 noise: white, rate 3
\*   0x9A, 0xB5, 0xD0, 0xF0 volume of channel 0, 1, 2, 3
WrSetupBytes == {133, 194, 1, 63, 231, 154, 181, 208, 240}
WrSetupClocks == {16}
AllBytes == 0 .. 255

InitWr ==
  /\ chip \in Engines
  /\ ref = chip
  /\ pre = chip
  /\ op = Call("New", 0)
  /\ ret = Call("New", 0)
  /\ phase = "orig"
  /\ nops = 0

\* the bookkeeping of a call of the write specification
WrNoted(name, arg) ==
  /\ ref' = pre
  /\ ret' = op
  /\ pre' = chip
  /\ op' = Call(name, arg)

WrSetupWrite(value) ==
  /\ phase = "orig"
  /\ nops < MaxWrSetup
  /\ chip' = Write(chip, value)
  /\ nops' = nops + 1
  /\ WrNoted("Write", value)
  /\ UNCHANGED phase

WrSetupRun(clocks) ==
  /\ phase = "orig"
  /\ nops < MaxWrSetup
  /\ chip' = Run(chip, clocks)[1]
  /\ nops' = nops + 1
  /\ WrNoted("Run", clocks)
  /\ UNCHANGED phase

WrWrite(value) ==
  /\ phase = "orig"
  /\ chip' = Write(chip, value)
  /\ phase' = "written"
  /\ WrNoted("Write", value)
  /\ UNCHANGED nops

NextWr ==
  \/ \E value \in WrSetupBytes : WrSetupWrite(value)
  \/ \E clocks \in WrSetupClocks : WrSetupRun(clocks)
  \/ \E value \in AllBytes : WrWrite(value)

SpecWr == InitWr /\ [][NextWr]_vars

\* the last call wrote a latch byte (high bit set) / a data byte
LatchByteWritten == op.name = "Write" /\ op.arg >= 128
DataByteWritten == op.name = "Write" /\ op.arg < 128

\* C5: a latch byte 1 CC T DDDD makes the latch (CC, T) and stores DDDD in
\* exactly one place: volume[CC] when T = 1, the low nibble of toneReg[CC]
\* (high 6 bits kept) when T = 0 and CC < 3, noiseReg (its 3 bits) when T = 0
\* and CC = 3; all other tone registers and volumes, and noiseReg unless it
\* is the target, keep their values.
C5_LatchByte ==
  LatchByteWritten =>
    LET CC == (op.arg \div 32) % 4
        T == (op.arg \div 16) % 2
        DDDD == op.arg % 16
    IN /\ chip.latchedChannel = CC
       /\ chip.latchedType = T
       /\ T = 1 =>
            /\ chip.volume = [pre.volume EXCEPT ![CC] = DDDD]
            /\ chip.toneReg = pre.toneReg
            /\ chip.noiseReg = pre.noiseReg
       /\ (T = 0 /\ CC < 3) =>
            /\ chip.toneReg =
                 [pre.toneReg EXCEPT ![CC] = (pre.toneReg[CC] \div 16) * 16 + DDDD]
            /\ chip.volume = pre.volume
            /\ chip.noiseReg = pre.noiseReg
       /\ (T = 0 /\ CC = 3) =>
            /\ chip.noiseReg = DDDD % 8
            /\ chip.toneReg = pre.toneReg
            /\ chip.volume = pre.volume

\* C5 witness: a tone latch byte changed the low nibble of a tone register
\* whose high 6 bits were set.
C5_Witness ==
  /\ LatchByteWritten
  /\ chip.latchedType = 0
  /\ chip.latchedChannel < 3
  /\ pre.toneReg[chip.latchedChannel] >= 16
  /\ chip.toneReg[chip.latchedChannel] # pre.toneReg[chip.latchedChannel]

\* C6: with (ch < 3, tone) latched, a data byte replaces the high 6 bits of
\* toneReg[ch] with its low 6 bits and keeps the low 4 bits and the latch;
\* right after a latch byte with nibble L a data byte H < 64 therefore
\* leaves toneReg[ch] = H * 16 + L.
C6_ToneDataByte ==
  (DataByteWritten /\ pre.latchedType = 0 /\ pre.latchedChannel < 3) =>
    LET ch == pre.latchedChannel
    IN /\ chip.toneReg[ch] = (op.arg % 64) * 16 + (pre.toneReg[ch] % 16)
       /\ chip.latchedChannel = pre.latchedChannel
       /\ chip.latchedType = pre.latchedType
       /\ (ret.name = "Write" /\ ret.arg >= 128 /\ op.arg < 64) =>
            chip.toneReg[ch] = op.arg * 16 + (ret.arg % 16)

\* C6 witness: the second of two consecutive data bytes changed the high
\* bits of the latched tone register, whose low nibble is not 0.
C6_Witness ==
  /\ DataByteWritten
  /\ ret.name = "Write" /\ ret.arg < 128
  /\ pre.latchedType = 0 /\ pre.latchedChannel < 3
  /\ pre.toneReg[pre.latchedChannel] % 16 # 0
  /\ chip.toneReg[pre.latchedChannel] # pre.toneReg[pre.latchedChannel]
  /\ ref.toneReg[pre.latchedChannel] # pre.toneReg[pre.latchedChannel]

\* C7: a data byte written while the latched type is volume leaves the
\* whole engine as it was.
C7_VolumeDataByteIgnored ==
  (DataByteWritten /\ pre.latchedType = 1) => chip = pre

\* C7 witness: a data byte arrived with (noise, volume) latched, its low
\* bits differ from the noise register and the LFSR had left its initial
\* value.
C7_Witness ==
  /\ DataByteWritten
  /\ pre.latchedType = 1
  /\ pre.latchedChannel = 3
  /\ op.arg % 8 # pre.noiseReg
  /\ pre.noiseShift # pre.lfsrInitial

\* the last call was a write that targets the noise register
NoiseRegisterWritten ==
  \/ LatchByteWritten /\ (op.arg \div 16) % 8 = 6
  \/ DataByteWritten /\ pre.latchedChannel = 3 /\ pre.latchedType = 0

\* C8: a write that targets the noise register sets noiseReg to the low 3
\* bits of the byte and the LFSR to its initial value, 0x8000 on the 16-bit
\* (Sega) and 0x4000 on the 15-bit (TI) variant.
C8_NoiseWriteResetsLfsr ==
  NoiseRegisterWritten =>
    /\ chip.noiseReg = op.arg % 8
    /\ chip.noiseShift = chip.lfsrInitial
    /\ chip.noiseShift = IF chip.feedbackShift = 15 THEN 32768 ELSE 16384

\* C8 witness: a data byte reached the noise register after the LFSR had
\* left its initial value.
C8_Witness ==
  /\ DataByteWritten
  /\ NoiseRegisterWritten
  /\ pre.noiseShift # pre.lfsrInitial
  /\ chip.noiseReg # pre.noiseReg

---------------------------------------------------------------------------
(* The LFSR specification walks the whole orbit of the shift register.     *)
(* The three tone registers are set to 1 and the noise rate to 3 (clocked  *)
(* by tone 2), so the noise counter expires every 2 internal ticks and the *)
(* LFSR shifts every 4: one Run of 64 clocks is one shift.  The engine has *)
(* 16 clocks to a sample, so that a Run leaves the sample accumulator      *)
(* where it was.  A noise write (periodic 0xE3, white 0xE7) or a Reset may *)
(* come after any shift; Clock calls walk, 64 in a row, from the initial   *)
(* LFSR value.  nops counts the tone writes, then the Clock calls.         *)

LfsrEngines == {New(16, 1, BufferSize, v) : v \in Variants}

\* periodic and white noise at rate 3
NoiseModes == {227, 231}

InitLfsr ==
  /\ chip \in LfsrEngines
  /\ ref = chip
  /\ pre = chip
  /\ op = Call("New", 0)
  /\ ret = 0
  /\ phase = "orig"
  /\ nops = 0

\* chip.Write(0x81), chip.Write(0xA1), chip.Write(0xC1)
LfsrWriteTone ==
  /\ phase = "orig"
  /\ nops < 3
  /\ chip' = Write(chip, 129 + 32 * nops)
  /\ nops' = nops + 1
  /\ op' = Call("Write", 129 + 32 * nops)
  /\ UNCHANGED <<ref, pre, ret, phase>>

LfsrWriteNoise(value) ==
  /\ \/ phase = "orig" /\ nops = 3
     \/ phase = "run"
  /\ chip' = Write(chip, value)
  /\ phase' = "run"
  /\ nops' = 3
  /\ op' = Call("Write", value)
  /\ UNCHANGED <<ref, pre, ret>>

LfsrRun ==
  /\ phase = "run"
  /\ chip' = Run(chip, 4 * 16)[1]
  /\ op' = Call("Run", 4 * 16)
  /\ UNCHANGED <<ref, pre, ret, phase, nops>>

LfsrClock ==
  /\ \/ phase = "run" /\ chip.noiseShift = chip.lfsrInitial
     \/ phase = "clocking"
  /\ chip' = Clock(chip)
  /\ phase' = IF nops + 1 = 3 + 4 * 16 THEN "run" ELSE "clocking"
  /\ nops' = IF nops + 1 = 3 + 4 * 16 THEN 3 ELSE nops + 1
  /\ op' = Call("Clock", 0)
  /\ UNCHANGED <<ref, pre, ret>>

LfsrReset ==
  /\ phase = "run"
  /\ chip' = Reset(chip)
  /\ phase' = "orig"
  /\ nops' = 0
  /\ op' = Call("Reset", 0)
  /\ UNCHANGED <<ref, pre, ret>>

NextLfsr ==
  \/ LfsrWriteTone
  \/ \E value \in NoiseModes : LfsrWriteNoise(value)
  \/ LfsrRun
  \/ LfsrClock
  \/ LfsrReset

SpecLfsr == InitLfsr /\ [][NextLfsr]_vars

\* C9: on both variants, in white and in periodic mode, the LFSR is never
\* zero after any sequence of Write, Clock, Run and Reset calls.
C9_LfsrNeverZero == chip.noiseShift # 0

\* C9 witness: a Run has shifted the LFSR down to its last set bit, the
\* value a shift without feedback would turn into zero.
C9_Witness ==
  /\ op.name = "Run"
  /\ chip.noiseShift = 1

\* C10: the LFSR stays within its width: in 1 .. 0x7FFF on the 15-bit (TI)
\* variant and in 1 .. 0xFFFF on the 16-bit (Sega) variant.
C10_LfsrWithinWidth ==
  /\ chip.feedbackShift = 14 => chip.noiseShift \in 1 .. 32767
  /\ chip.feedbackShift = 15 => chip.noiseShift \in 1 .. 65535
  /\ chip.feedbackShift \in {14, 15}

\* C10 witness: on the 15-bit variant in white mode a Run has fed a bit
\* back into the top of an LFSR that still holds lower bits.
C10_Witness ==
  /\ op.name = "Run"
  /\ chip.feedbackShift = 14
  /\ chip.noiseReg = 7
  /\ chip.noiseShift > 16384

---------------------------------------------------------------------------
(* The shift specification (TestGolden_PeriodicNoiseLFSRSequence and       *)
(* TestGolden_WhiteNoiseLFSRSequence): a freshly constructed engine is put *)
(* into periodic (0xE0) or white (0xE4) noise mode at rate 0 and clocked.  *)
(* nops counts the rising edges of the noise toggle, that is the shifts;   *)
(* ref and ret hold the LFSR value and the output bit that the tests'      *)
(* reference step function lfsrStep gives after as many steps.             *)

\* shifts the engine is clocked for
MaxShifts == 36

\* periodic and white noise at rate 0
ShiftModes == {224, 228}

\* lfsrStep of the tests: one LFSR shift
lfsrStep(shift, whiteNoise, taps, feedbackShift) ==
  LET tapped == And16(shift, taps)
      t8 == Xor16(tapped, Shr(tapped, 8))
      t4 == Xor16(t8, Shr(t8, 4))
      t2 == Xor16(t4, Shr(t4, 2))
      t1 == Xor16(t2, Shr(t2, 1))
      feedback == IF whiteNoise
                    THEN U16((t1 % 2) * Pow2(feedbackShift))
                    ELSE U16((shift % 2) * Pow2(feedbackShift))
  IN Or16(Shr(shift, 1), feedback)

InitShift ==
  /\ chip \in Engines
  /\ ref = 0
  /\ pre = chip
  /\ op = Call("New", 0)
  /\ ret = FALSE
  /\ phase = "orig"
  /\ nops = 0

\* chip.Write(0xE0) or chip.Write(0xE4); the reference starts at the
\* initial LFSR value of the variant
ShiftWriteMode(value) ==
  /\ phase = "orig"
  /\ chip' = Write(chip, value)
  /\ ref' = IF chip.feedbackShift = 15 THEN 32768 ELSE 16384
  /\ ret' = FALSE
  /\ phase' = "shifting"
  /\ pre' = chip
  /\ op' = Call("Write", value)
  /\ UNCHANGED nops

\* one Clock call; on a rising edge of the noise toggle the reference makes
\* one step with the taps and width of the variant
ShiftClock ==
  LET c == Clock(chip)
      rising == c.noiseToggle /\ ~chip.noiseToggle
      sega == chip.feedbackShift = 15
  IN /\ phase = "shifting"
     /\ nops < MaxShifts \/ ~rising
     /\ chip' = c
     /\ nops' = IF rising THEN nops + 1 ELSE nops
     /\ ref' = IF rising
                 THEN lfsrStep(ref, Bit(chip.noiseReg, 2) # 0,
                               IF sega THEN 9 ELSE 3, IF sega THEN 15 ELSE 14)
                 ELSE ref
     /\ ret' = IF rising THEN (ref % 2) # 0 ELSE ret
     /\ pre' = chip
     /\ op' = Call("Clock", 0)
     /\ UNCHANGED phase

NextShift ==
  \/ \E value \in ShiftModes : ShiftWriteMode(value)
  \/ ShiftClock

SpecShift == InitShift /\ [][NextShift]_vars

\* C11: in periodic mode the LFSR holds a single bit that starts at the top
\* of the register and moves down one position per shift, so that after k
\* shifts it is back at its initial value exactly when k is a multiple of
\* 16 (Sega) or 15 (TI); the captured output is true exactly after a shift
\* whose pre-shift value was 0x0001, the last shift of each period.
C11_PeriodicNoiseSequence ==
  (phase = "shifting" /\ Bit(chip.noiseReg, 2) = 0) =>
    LET width == IF chip.lfsrInitial = 32768 THEN 16 ELSE 15
        k == nops % width
    IN /\ chip.lfsrInitial \in {32768, 16384}
       /\ chip.noiseShift = Pow2(width - 1 - k)
       /\ (chip.noiseShift = chip.lfsrInitial) <=> (k = 0)
       /\ chip.noiseOut <=> (nops > 0 /\ k = 0)

\* C11 witness: the Sega LFSR is back at 0x8000 after its 16th shift, with
\* the output bit captured from 0x0001.
C11_Witness ==
  /\ phase = "shifting"
  /\ chip.noiseReg = 0
  /\ nops = 16
  /\ chip.noiseShift = 32768
  /\ chip.noiseOut

\* C12: in white mode the LFSR and the captured output change only on a
\* rising edge of the noise toggle, where the output becomes bit 0 of the
\* pre-shift LFSR and the LFSR becomes (shift >> 1) | (parity(shift & taps)
\* << feedbackShift): after k rising edges they are the k-th iterate of the
\* reference step function from the initial LFSR value (taps 0x0009 and bit
\* 15 on Sega, taps 0x0003 and bit 14 on TI).
C12_WhiteNoiseSequence ==
  (phase = "shifting" /\ Bit(chip.noiseReg, 2) # 0) =>
    /\ chip.noiseShift = ref
    /\ chip.noiseOut = ret

\* C12 witness: after at least 20 white-noise shifts the output bit is true
\* and the feedback has set the top bit of the LFSR.
C12_Witness ==
  /\ phase = "shifting"
  /\ chip.noiseReg = 4
  /\ nops >= 20
  /\ chip.noiseOut
  /\ chip.noiseShift >= chip.lfsrInitial
  /\ op.name = "Clock"

---------------------------------------------------------------------------
(* Claims settled under the general specification Spec: pre is the engine  *)
(* before the last call, op the call and ret what it returned.             *)

\* the emissions of a Run of op.arg clocks from engine pre: the resampler
\* accumulator gains one per clock and gives up clocksPerSample per sample
Emissions ==
  (Halves(pre.clockCounter) + 2 * op.arg) \div Halves(pre.clocksPerSample)

\* C13: bufferPos always lies in 0 .. capacity; a Run stores as many of
\* its emissions as there is room for from bufferPos on, leaves every other
\* buffer position (all of them when the buffer is full) unchanged, stops
\* bufferPos at the capacity and returns the number of emissions that found
\* the buffer full, 0 when there was room for all.
C13_BufferBounds ==
  /\ chip.bufferPos \in 0 .. BufLen(chip.mixBuffer)
  /\ op.name = "Run" =>
       LET capacity == BufLen(pre.mixBuffer)
           room == capacity - pre.bufferPos
           stored == IF Emissions < room THEN Emissions ELSE room
       IN /\ chip.bufferPos = pre.bufferPos + stored
          /\ ret = Emissions - stored
          /\ \A ch \in 0 .. 3 : \A i \in 0 .. capacity - 1 :
               (i < pre.bufferPos \/ i >= chip.bufferPos) =>
                 chip.channelBuffers[ch][i] = pre.channelBuffers[ch][i]
          /\ pre.bufferPos = capacity =>
               /\ chip.channelBuffers = pre.channelBuffers
               /\ chip.bufferPos = capacity

\* C13 witness: a Run found room for one of its two emissions and dropped
\* the other.
C13_Witness ==
  /\ op.name = "Run"
  /\ pre.bufferPos = BufLen(pre.mixBuffer) - 1
  /\ chip.bufferPos = BufLen(chip.mixBuffer)
  /\ Emissions = 2
  /\ ret = 1

---------------------------------------------------------------------------
(* The overflow specification (TestSN76489_RunOverflow): engines of every  *)
(* capacity 1 .. MaxCapacity and of clock ratios below, at and above one   *)
(* sample per clock are driven for at most MaxSetup calls of Write, Run    *)
(* and GenerateSamples.                                                    *)

MaxCapacity == 3

\* <<clockFreq, sampleRate>>: 0.5, 1, 1.5, 10.5 and 16 clocks per sample,
\* and 10/3, which a float64 rounds
OvRatios == {<<1, 2>>, <<1, 1>>, <<3, 2>>, <<21, 2>>, <<16, 1>>, <<10, 3>>}

OvEngines ==
  {New(r[1], r[2], capacity, v) :
     r \in OvRatios, capacity \in 1 .. MaxCapacity, v \in Variants}

\* 0x90 tone 0 volume 0 (max)
OvBytes == {144}
OvRunClocks == {1, 5}
OvClocks == {1, 3, 16, 64}

InitOv ==
  /\ chip \in OvEngines
  /\ ref = chip
  /\ pre = chip
  /\ op = Call("New", 0)
  /\ ret = 0
  /\ phase = "orig"
  /\ nops = 0

OvWrite(value) ==
  /\ nops < MaxSetup
  /\ chip' = Write(chip, value)
  /\ nops' = nops + 1
  /\ Noted("Write", value, 0)
  /\ UNCHANGED <<ref, phase>>

OvRun(clocks) ==
  LET r == Run(chip, clocks)
  IN /\ nops < MaxSetup
     /\ chip' = r[1]
     /\ nops' = nops + 1
     /\ Noted("Run", clocks, r[2])
     /\ UNCHANGED <<ref, phase>>

OvGenerateSamples(clocks) ==
  LET r == GenerateSamples(chip, clocks)
  IN /\ nops < MaxSetup
     /\ chip' = r[1]
     /\ nops' = nops + 1
     /\ Noted("GenerateSamples", clocks, r[2])
     /\ UNCHANGED <<ref, phase>>

NextOv ==
  \/ \E value \in OvBytes : OvWrite(value)
  \/ \E clocks \in OvRunClocks : OvRun(clocks)
  \/ \E clocks \in OvClocks : OvGenerateSamples(clocks)

SpecOv == InitOv /\ [][NextOv]_vars

\* a clock count that spans capacity + 1 sample periods: a sample is
\* emitted at most once per clock and at least once per clocksPerSample
\* (rounded up) clocks
OverflowingClocks(s) ==
  (BufLen(s.mixBuffer) + 1) * Ceiling(s.clocksPerSample)

\* C14: for every capacity > 0 and every clock ratio there is a clock count
\* n for which GenerateSamples(n) returns dropped > 0 (from every reachable
\* engine, n = OverflowingClocks does), and whenever GenerateSamples has
\* returned dropped > 0, bufferPos equals the capacity.
C14_OverflowEventually ==
  /\ BufLen(chip.mixBuffer) > 0 =>
       GenerateSamples(chip, OverflowingClocks(chip))[2] > 0
  /\ (op.name = "GenerateSamples" /\ ret > 0) =>
       chip.bufferPos = BufLen(chip.mixBuffer)

\* C14 witness: GenerateSamples has dropped samples on an engine of the
\* largest capacity whose clock ratio, 10/3, a float64 rounds.
C14_Witness ==
  /\ op.name = "GenerateSamples"
  /\ ret > 0
  /\ BufLen(chip.mixBuffer) = MaxCapacity
  /\ chip.clocksPerSample = F64Div(10, 3)
  /\ chip.bufferPos = MaxCapacity

\* C15: GetBuffer returns the count bufferPos, the count GetChannelBuffers
\* returns, and leaves in mixBuffer, at every position below that count, the
\* sum of the four channel buffers times the gain in force at the call.
C15_GetBufferMix ==
  op.name = "GetBuffer" =>
    /\ ret = chip.bufferPos
    /\ ret = GetChannelBuffers(chip)[2]
    /\ chip.gain = pre.gain
    /\ \A i \in 0 .. chip.bufferPos - 1 :
         chip.mixBuffer[i] =
           (chip.channelBuffers[0][i] + chip.channelBuffers[1][i]
              + chip.channelBuffers[2][i] + chip.channelBuffers[3][i]) * pre.gain

\* C15 witness: GetBuffer mixed a non-zero sample after SetGain had changed
\* the gain from its default.
C15_Witness ==
  /\ op.name = "GetBuffer"
  /\ chip.gain # 1
  /\ \E i \in 0 .. chip.bufferPos - 1 :
       /\ chip.mixBuffer[i] # 0
       /\ chip.mixBuffer[i] # chip.channelBuffers[0][i]

\* n successive Clock calls
RECURSIVE Clocked(_, _)
Clocked(s, n) == IF n <= 0 THEN s ELSE Clock(Clocked(s, n - 1))

\* the clock of a Run from engine pre at which its j-th sample is emitted
EmissionClock(j) ==
  (j * Halves(pre.clocksPerSample) - Halves(pre.clockCounter) + 1) \div 2

\* C16: every position a Run (or GenerateSamples) emitted holds, for each
\* tone channel, the volume table entry of its volume register if its output
\* was HIGH at the emitting clock and 0 otherwise, and likewise for the noise
\* channel and its captured output; no gain is applied, and a channel whose
\* volume is 15 holds 0.
C16_ChannelBufferLevels ==
  op.name \in {"Run", "GenerateSamples"} =>
    LET first == IF op.name = "Run" THEN pre.bufferPos ELSE 0
    IN \A i \in first .. chip.bufferPos - 1 :
         LET at == Clocked(pre, EmissionClock(i - first + 1))
         IN /\ \A ch \in 0 .. 2 :
                 chip.channelBuffers[ch][i] =
                   IF at.toneOutput[ch] THEN volumeTable[pre.volume[ch]] ELSE 0
            /\ chip.channelBuffers[3][i] =
                 IF at.noiseOut THEN volumeTable[pre.volume[3]] ELSE 0
            /\ \A ch \in 0 .. 3 :
                 pre.volume[ch] = 15 => chip.channelBuffers[ch][i] = 0

\* C16 witness: with a gain other than the default, a Run emitted the full
\* level of channel 0 while channel 1, silent, was HIGH and holds 0.
C16_Witness ==
  /\ op.name = "Run"
  /\ chip.gain # 1
  /\ chip.volume[1] = 15
  /\ chip.toneOutput[1]
  /\ chip.bufferPos > pre.bufferPos
  /\ chip.channelBuffers[0][chip.bufferPos - 1] = volumeTable[0]
  /\ chip.channelBuffers[1][chip.bufferPos - 1] = 0

\* C17: Sample() is the gain times the sum over the four channels of the
\* volume table entry of the channel when its output bit (the captured noise
\* output for channel 3) is HIGH and 0 when it is LOW; with only channel 0 at
\* full volume and the default gain it is 0.0 while channel 0 is LOW and 0.25
\* (1000000 in units of 0.25 * 10^-6) while it is HIGH.
C17_SampleUnipolar ==
  LET out(ch) == IF ch < 3 THEN chip.toneOutput[ch] ELSE chip.noiseOut
      part(ch) == IF out(ch) THEN volumeTable[chip.volume[ch]] ELSE 0
  IN /\ Sample(chip) = chip.gain * (part(0) + part(1) + part(2) + part(3))
     /\ Sample(chip) >= 0
     /\ (chip.volume = (0 :> 0 @@ 1 :> 15 @@ 2 :> 15 @@ 3 :> 15) /\ chip.gain = 1) =>
          Sample(chip) = IF chip.toneOutput[0] THEN 1000000 ELSE 0
     /\ (op.name = "New") => ~chip.toneOutput[0]

\* C17 witness: only channel 0 is audible, at full volume and default gain;
\* the last call took its output from LOW, where Sample() was 0, to HIGH,
\* where it is 0.25, while a silent channel is HIGH as well.
C17_Witness ==
  /\ chip.volume = (0 :> 0 @@ 1 :> 15 @@ 2 :> 15 @@ 3 :> 15)
  /\ pre.volume = chip.volume
  /\ chip.gain = 1
  /\ ~pre.toneOutput[0] /\ Sample(pre) = 0
  /\ chip.toneOutput[0] /\ Sample(chip) = 1000000
  /\ chip.toneOutput[1]

\* C18: right after New and right after Reset all four volumes are 15, all
\* tone registers and counters are 0, all outputs are LOW, noiseReg is 0,
\* the LFSR has its initial value (0x8000 Sega, 0x4000 TI), the latch is
\* (channel 0, tone/noise), bufferPos is 0 and Sample() is 0.
C18_PowerOnState ==
  op.name \in {"New", "Reset"} =>
    /\ \A ch \in 0 .. 3 : chip.volume[ch] = 15
    /\ \A ch \in 0 .. 2 :
         /\ chip.toneReg[ch] = 0
         /\ chip.toneCounter[ch] = 0
         /\ ~chip.toneOutput[ch]
    /\ ~chip.noiseOut
    /\ chip.noiseReg = 0
    /\ chip.noiseShift = chip.lfsrInitial
    /\ chip.noiseShift = IF chip.feedbackShift = 15 THEN 32768 ELSE 16384
    /\ chip.latchedChannel = 0
    /\ chip.latchedType = 0
    /\ chip.bufferPos = 0
    /\ Sample(chip) = 0

\* C18 witness: Reset was called on an engine with an audible channel, a
\* shifted LFSR, a changed latch and samples in its buffers.
C18_Witness ==
  /\ op.name = "Reset"
  /\ pre.volume # chip.volume
  /\ pre.noiseShift # pre.lfsrInitial
  /\ pre.bufferPos > 0
  /\ pre.latchedType = 1
  /\ Sample(pre) # 0

---------------------------------------------------------------------------
(* The reset specification: an engine is driven for at most MaxSetup calls *)
(* (writes, runs that end in the middle of a prescaler period and of a     *)
(* sample period, gain changes) and then Reset, while a second engine is   *)
(* constructed with the same configuration and given the same gain; from   *)
(* then on both engines are handed the same script of at most MaxScript    *)
(* Write and Run calls.  ref holds the second engine (fresh) and the first *)
(* one as it was just before the Reset (before).                           *)

\* 0x90 tone 0 volume 0 (max)    0xE7 noise: white, rate 3
RsBytes == {144, 231}
RsSetupClocks == {32, 40}
RsClocks == {16, 21}
RsGains == {2}

InitRs ==
  /\ chip \in Engines
  /\ ref = [fresh |-> chip, before |-> chip]
  /\ pre = chip
  /\ op = Call("New", 0)
  /\ ret = 0
  /\ phase = "orig"
  /\ nops = 0

RsSetGain(gain) ==
  /\ phase = "orig"
  /\ nops < MaxSetup
  /\ chip' = SetGain(chip, gain)
  /\ nops' = nops + 1
  /\ Noted("SetGain", gain, 0)
  /\ UNCHANGED <<ref, phase>>

\* chip.Reset();  fresh := New(same configuration); fresh.SetGain(chip's gain)
RsReset ==
  /\ phase = "orig"
  /\ chip' = Reset(chip)
  /\ ref' = [fresh |-> SetGain(Fresh(chip), chip.gain), before |-> chip]
  /\ phase' = "loaded"
  /\ nops' = 0
  /\ Noted("Reset", 0, 0)

RsWrite(value) ==
  /\ phase \in {"loaded", "cont"}
  /\ nops < MaxScript
  /\ chip' = Write(chip, value)
  /\ ref' = [ref EXCEPT !.fresh = Write(ref.fresh, value)]
  /\ phase' = "cont"
  /\ nops' = nops + 1
  /\ Noted("Write", value, <<0, 0>>)

RsRun(clocks) ==
  LET r == Run(chip, clocks)
      q == Run(ref.fresh, clocks)
  IN /\ phase \in {"loaded", "cont"}
     /\ nops < MaxScript
     /\ chip' = r[1]
     /\ ref' = [ref EXCEPT !.fresh = q[1]]
     /\ phase' = "cont"
     /\ nops' = nops + 1
     /\ Noted("Run", clocks, <<r[2], q[2]>>)

NextRs ==
  \/ \E value \in RsBytes : FrameSetupWrite(value)
  \/ \E clocks \in RsSetupClocks : FrameSetupRun(clocks)
  \/ \E gain \in RsGains : RsSetGain(gain)
  \/ RsReset
  \/ \E value \in RsBytes : RsWrite(value)
  \/ \E clocks \in RsClocks : RsRun(clocks)

SpecRs == InitRs /\ [][NextRs]_vars

\* C19 as stated: Reset leaves the gain, the buffer capacity, the variant
\* constants and the clock ratio as they were and puts every other piece
\* of mutable state, the contents of the sample buffers included, at its
\* construction value: the engine equals a freshly constructed one with
\* that gain.  After any script of Write and Run calls both engines hold
\* the same per-channel buffers.
C19_ResetRestoresAll ==
  /\ phase = "loaded" => chip = ref.fresh
  /\ phase = "cont" => chip.channelBuffers = ref.fresh.channelBuffers

\* C19 amended: Reset leaves the gain, the buffer capacity, the variant
\* constants, the clock ratio and the contents of the sample buffers as
\* they were and puts every other field (prescaler, sample accumulator,
\* noise toggle and bufferPos included) at its construction value: but for
\* the samples stored before the Reset, which now lie at and above
\* bufferPos = 0, the engine equals a freshly constructed one with that
\* gain.  After any script of Write and Run calls both engines hold the
\* same number of valid samples and the same per-channel samples below
\* that number, and have dropped the same number of samples.
C19_ResetEqualsFresh ==
  /\ phase = "loaded" =>
       /\ pre = ref.before
       /\ chip.gain = pre.gain
       /\ BufLen(chip.mixBuffer) = BufLen(pre.mixBuffer)
       /\ chip.feedbackShift = pre.feedbackShift
       /\ chip.lfsrInitial = pre.lfsrInitial
       /\ chip.whiteNoiseTaps = pre.whiteNoiseTaps
       /\ chip.toneZeroValue = pre.toneZeroValue
       /\ chip.clocksPerSample = pre.clocksPerSample
       /\ chip.channelBuffers = pre.channelBuffers
       /\ chip.mixBuffer = pre.mixBuffer
       /\ chip.clockDivider = 0
       /\ chip.clockCounter = F64Zero
       /\ ~chip.noiseToggle
       /\ chip.bufferPos = 0
       /\ [chip EXCEPT !.channelBuffers = ref.fresh.channelBuffers,
                       !.mixBuffer = ref.fresh.mixBuffer] = ref.fresh
  /\ phase = "cont" =>
       /\ chip.bufferPos = ref.fresh.bufferPos
       /\ Output(chip) = Output(ref.fresh)
       /\ ret[1] = ret[2]
       /\ [chip EXCEPT !.channelBuffers = ref.fresh.channelBuffers,
                       !.mixBuffer = ref.fresh.mixBuffer] = ref.fresh

\* C19 witness: the engine was Reset in the middle of a prescaler period
\* and of a sample period, with the noise toggle raised, samples in its
\* buffers and a changed gain; the script has since emitted a non-zero
\* sample on both engines, and a sample stored before the Reset still lies
\* above bufferPos.
C19_Witness ==
  /\ phase = "cont"
  /\ chip.gain # 1
  /\ ref.before.clockDivider = 8
  /\ ref.before.clockCounter # F64Zero
  /\ ref.before.noiseToggle
  /\ ref.before.bufferPos = BufferSize
  /\ chip.bufferPos < BufferSize
  /\ chip.channelBuffers[0][chip.bufferPos] # 0
  /\ ref.fresh.channelBuffers[0][chip.bufferPos] = 0
  /\ \E i \in 0 .. chip.bufferPos - 1 : chip.channelBuffers[0][i] # 0

---------------------------------------------------------------------------
(* The load specification: an engine is driven for at most MaxSetup calls  *)
(* and then handed, by Deserialize, a buffer of some length whose byte 0   *)
(* is some version and whose other bytes are the snapshot of a freshly     *)
(* constructed engine, padded with zeroes.                                 *)

\* lengths and version bytes of the buffers handed to Deserialize
LdLengths == {0, 1, 39, 40, 41}
LdVersions == {0, 1, 2, 255}

\* the first len bytes of a snapshot of a fresh engine, byte 0 replaced
LdBuffer(s, len, version) ==
  LET snapshot == Serialize(Fresh(s), Bytes(sn76489SerializeSize))[1]
  IN [i \in 0 .. len - 1 |->
        IF i = 0 THEN version
        ELSE IF i < sn76489SerializeSize THEN snapshot[i] ELSE 0]

InitLd ==
  /\ chip \in Engines
  /\ ref = chip
  /\ pre = chip
  /\ op = Call("New", 0)
  /\ ret = ErrNone
  /\ phase = "orig"
  /\ nops = 0

LdDeserialize(len, version) ==
  LET r == Deserialize(chip, LdBuffer(chip, len, version))
  IN /\ phase = "orig"
     /\ chip' = r[1]
     /\ phase' = "loaded"
     /\ Noted("Deserialize", <<len, version>>, r[2])
     /\ UNCHANGED <<ref, nops>>

NextLd ==
  \/ \E value \in RsBytes : FrameSetupWrite(value)
  \/ \E clocks \in RsSetupClocks : FrameSetupRun(clocks)
  \/ \E len \in LdLengths, version \in LdVersions : LdDeserialize(len, version)

SpecLd == InitLd /\ [][NextLd]_vars

\* C20: Deserialize of a buffer shorter than 40 bytes returns the "buffer
\* too small" error whatever byte 0 is (the length is checked first), and of
\* a buffer of 40 bytes or more whose byte 0 is not 1 the "unsupported
\* version" error; in both cases the whole engine, bufferPos included, is as
\* it was before the call.
C20_DeserializeRejects ==
  op.name = "Deserialize" =>
    LET len == op.arg[1]
        version == op.arg[2]
    IN /\ len < 40 => (ret = ErrDeserializeSmall /\ chip = pre)
       /\ (len >= 40 /\ version # 1) => (ret = ErrVersion /\ chip = pre)
       /\ (len >= 40 /\ version = 1) => ret = ErrNone
       /\ ErrDeserializeSmall # ErrNone /\ ErrVersion # ErrNone
       /\ ErrDeserializeSmall # ErrVersion

\* C20 witness: a 39-byte buffer with a wrong version byte was rejected as
\* too small by an engine that held samples and differed from the snapshot.
C20_Witness ==
  /\ op.name = "Deserialize"
  /\ op.arg = <<39, 2>>
  /\ ret = ErrDeserializeSmall
  /\ chip.bufferPos > 0
  /\ chip.volume[0] = 0
  /\ chip.noiseShift # chip.lfsrInitial

---------------------------------------------------------------------------
(* The snapshot specification: an engine (the source) is driven for at     *)
(* most MaxSetup calls and serialized into a buffer of some length that    *)
(* was filled with a marker byte; the engine is then driven on for at most *)
(* MaxTarget calls (so that it differs from the source), loads the         *)
(* snapshot with Deserialize and is serialized once more.  ref holds the   *)
(* source engine, the snapshot taken from it and the engine that loaded    *)
(* it, as it was just before the load.                                     *)

MaxTarget == 2

\* lengths of the buffers handed to Serialize and the byte they are filled
\* with beforehand (0xAA, which no snapshot of these engines writes at
\* every position)
SvLengths == {0, 39, 40, 41}
SvFills == {170}

\*   0x90 tone 0 volume 0 (max)   0xE7 noise: white, rate 3
\*   0x85, 0x01: tone 0 = 0x015
SvBytes == {144, 231}
SvTargetBytes == {133, 1}
SvSetupClocks == {16, 32}
SvTargetClocks == {16}
SvGains == {2}

\* a buffer of len bytes, each one the marker
Filled(len, fill) == [i \in 0 .. len - 1 |-> fill]

\* the first sn76489SerializeSize bytes of a buffer
Snapshot(buf) == [i \in 0 .. sn76489SerializeSize - 1 |-> buf[i]]

\* the engines serialized: those of the general specification, with 10.5
\* clocks per sample, and engines with 32/3 clocks per sample, whose
\* accumulator holds rounded values with a full fraction
SvEngines == Engines \union {New(32, 3, BufferSize, v) : v \in Variants}

InitSv ==
  /\ chip \in SvEngines
  /\ ref = [source |-> chip, snapshot |-> <<>>, target |-> chip]
  /\ pre = chip
  /\ op = Call("New", 0)
  /\ ret = <<<<>>, ErrNone>>
  /\ phase = "orig"
  /\ nops = 0

\* err := chip.Serialize(buf) on a marker-filled buffer of len bytes
SvSerialize(len, fill) ==
  LET r == Serialize(chip, Filled(len, fill))
  IN /\ phase \in {"orig", "loaded"}
     /\ phase' = IF phase = "orig" THEN "saved" ELSE "resaved"
     /\ ref' = IF phase = "orig"
               THEN [source |-> chip, snapshot |-> r[1], target |-> chip]
               ELSE ref
     /\ nops' = 0
     /\ Noted("Serialize", <<len, fill>>, r)
     /\ UNCHANGED chip

\* a snapshot has been taken and not yet loaded
Saved == phase = "saved" /\ BufLen(ref.snapshot) >= sn76489SerializeSize

\* the calls made between the save and the load
SvTargetWrite(value) ==
  /\ Saved
  /\ nops < MaxTarget
  /\ chip' = Write(chip, value)
  /\ nops' = nops + 1
  /\ Noted("Write", value, <<<<>>, ErrNone>>)
  /\ UNCHANGED <<ref, phase>>

SvTargetRun(clocks) ==
  /\ Saved
  /\ nops < MaxTarget
  /\ chip' = Run(chip, clocks)[1]
  /\ nops' = nops + 1
  /\ Noted("Run", clocks, <<<<>>, ErrNone>>)
  /\ UNCHANGED <<ref, phase>>

SvTargetSetGain(gain) ==
  /\ Saved
  /\ nops < MaxTarget
  /\ chip' = SetGain(chip, gain)
  /\ nops' = nops + 1
  /\ Noted("SetGain", gain, <<<<>>, ErrNone>>)
  /\ UNCHANGED <<ref, phase>>

\* err := chip.Deserialize(snapshot)
SvDeserialize ==
  LET r == Deserialize(chip, ref.snapshot)
  IN /\ phase = "saved" /\ ret[2] = ErrNone
     /\ chip' = r[1]
     /\ phase' = "loaded"
     /\ ref' = [ref EXCEPT !.target = chip]
     /\ Noted("Deserialize", 0, <<ref.snapshot, r[2]>>)
     /\ UNCHANGED nops

NextSv ==
  \/ \E value \in SvBytes : FrameSetupWrite(value)
  \/ \E clocks \in SvSetupClocks : FrameSetupRun(clocks)
  \/ \E len \in SvLengths, fill \in SvFills : SvSerialize(len, fill)
  \/ \E value \in SvTargetBytes : SvTargetWrite(value)
  \/ \E clocks \in SvTargetClocks : SvTargetRun(clocks)
  \/ \E gain \in SvGains : SvTargetSetGain(gain)
  \/ SvDeserialize

SpecSv == InitSv /\ [][NextSv]_vars

\* C21: Serialize into a buffer shorter than 40 bytes returns the "buffer
\* too small" error and leaves every byte of the buffer as it was; into a
\* buffer of 40 bytes or more it returns no error, leaves the bytes from 40
\* on as they were and sets each of the bytes 0..39 (they do not depend on
\* what the buffer held).  The engine is not changed.
C21_SerializeBuffer ==
  op.name = "Serialize" =>
    LET len == op.arg[1]
        fill == op.arg[2]
        buf == ret[1]
    IN /\ BufLen(buf) = len
       /\ chip = pre
       /\ len < sn76489SerializeSize =>
            /\ ret[2] = ErrSerializeSmall
            /\ buf = Filled(len, fill)
       /\ len >= sn76489SerializeSize =>
            /\ ret[2] = ErrNone
            /\ \A i \in sn76489SerializeSize .. len - 1 : buf[i] = fill
            /\ Snapshot(buf)
                 = Snapshot(Serialize(pre, Filled(len, 255 - fill))[1])
            /\ buf[0] = serializeVersion
       /\ ErrSerializeSmall # ErrNone

\* C21 witness: an engine that had been written to and run was serialized
\* into a 41-byte buffer, which succeeded and left byte 40 alone, and later
\* into a 39-byte buffer, which was rejected.
C21_Witness ==
  /\ phase = "resaved"
  /\ op.name = "Serialize"
  /\ op.arg[1] = 39
  /\ ret[2] = ErrSerializeSmall
  /\ BufLen(ref.snapshot) = 41
  /\ ref.snapshot[0] = serializeVersion
  /\ ref.snapshot[40] = op.arg[2]
  /\ ref.source.volume[0] = 0
  /\ ref.source.clockCounter # F64Zero
  /\ ref.source.noiseShift # ref.source.lfsrInitial

\* C22: an engine that has loaded a snapshot holds the tone registers,
\* volumes, noise register and LFSR of the engine the snapshot was taken
\* from, and a snapshot taken from it has the same 40 bytes as the snapshot
\* it loaded.
C22_SnapshotRoundTrip ==
  /\ phase \in {"loaded", "resaved"} =>
       /\ chip.toneReg = ref.source.toneReg
       /\ chip.volume = ref.source.volume
       /\ chip.noiseReg = ref.source.noiseReg
       /\ chip.noiseShift = ref.source.noiseShift
  /\ (phase = "resaved" /\ op.arg[1] >= sn76489SerializeSize) =>
       /\ ret[2] = ErrNone
       /\ Snapshot(ret[1]) = Snapshot(ref.snapshot)

\* C22 witness: the engine that loaded the snapshot had, before the load,
\* another tone register, another latch and samples in its buffers; the
\* source had shifted its LFSR and was in the middle of a sample period.
C22_Witness ==
  /\ phase = "resaved"
  /\ op.arg[1] = sn76489SerializeSize
  /\ ref.target.toneReg # ref.source.toneReg
  /\ ref.target.latchedType # ref.source.latchedType
  /\ ref.target.clockCounter # ref.source.clockCounter
  /\ ref.source.noiseShift # ref.source.lfsrInitial
  /\ ref.source.volume[0] = 0

\* C23: a Deserialize that returns no error leaves bufferPos at 0 and the
\* gain, the variant constants (LFSR width, taps, tone-zero value, initial
\* LFSR value), the clock ratio and the capacity of every sample buffer as
\* they were.
C23_LoadKeepsConfiguration ==
  (op.name = "Deserialize" /\ ret[2] = ErrNone) =>
    /\ chip.bufferPos = 0
    /\ chip.gain = pre.gain
    /\ chip.feedbackShift = pre.feedbackShift
    /\ chip.whiteNoiseTaps = pre.whiteNoiseTaps
    /\ chip.toneZeroValue = pre.toneZeroValue
    /\ chip.lfsrInitial = pre.lfsrInitial
    /\ chip.clocksPerSample = pre.clocksPerSample
    /\ BufLen(chip.mixBuffer) = BufLen(pre.mixBuffer)
    /\ \A ch \in 0 .. 3 :
         BufLen(chip.channelBuffers[ch]) = BufLen(pre.channelBuffers[ch])

\* C23 witness: the engine that loaded held samples and had a gain other
\* than that of the engine the snapshot was taken from.
C23_Witness ==
  /\ op.name = "Deserialize"
  /\ ret[2] = ErrNone
  /\ pre.bufferPos > 0
  /\ pre.gain # ref.source.gain
  /\ pre.toneReg # chip.toneReg

---------------------------------------------------------------------------
(* The frame-start specification: after a set-up of at most MaxSetup calls *)
(* the engine is copied; the engine itself makes GenerateSamples(clocks),  *)
(* the copy (ref) makes ResetBuffer() and then Run(clocks).                *)

\*   0x90 tone 0 volume 0 (max)   0xE7 noise: white, rate 3
GsBytes == {144, 231}
GsSetupClocks == {16, 21}

\* clock counts of the compared calls: none, less than a sample period, a
\* prescaler period, two sample periods, more than the buffers hold
GsClocks == {0, 5, 16, 21, 48}

InitGs ==
  /\ chip \in Engines
  /\ ref = chip
  /\ pre = chip
  /\ op = Call("New", 0)
  /\ ret = <<0, 0>>
  /\ phase = "orig"
  /\ nops = 0

GsGenerateSamples(clocks) ==
  LET r == GenerateSamples(chip, clocks)
  IN /\ phase = "orig"
     /\ chip' = r[1]
     /\ ref' = chip
     /\ phase' = "generated"
     /\ Noted("GenerateSamples", clocks, <<r[2], 0>>)
     /\ UNCHANGED nops

GsResetBuffer ==
  /\ phase = "generated"
  /\ ref' = ResetBuffer(ref)
  /\ phase' = "rewound"
  /\ UNCHANGED <<chip, pre, op, ret, nops>>

GsRun ==
  LET q == Run(ref, op.arg)
  IN /\ phase = "rewound"
     /\ ref' = q[1]
     /\ ret' = <<ret[1], q[2]>>
     /\ phase' = "done"
     /\ UNCHANGED <<chip, pre, op, nops>>

NextGs ==
  \/ \E value \in GsBytes : FrameSetupWrite(value)
  \/ \E clocks \in GsSetupClocks : FrameSetupRun(clocks)
  \/ \E clocks \in GsClocks : GsGenerateSamples(clocks)
  \/ GsResetBuffer
  \/ GsRun

SpecGs == InitGs /\ [][NextGs]_vars

\* C24: GenerateSamples(clocks) leaves the engine, its sample buffers
\* included, in the state in which ResetBuffer() followed by Run(clocks)
\* leaves it, and returns the dropped count that Run returns.
C24_GenerateSamplesIsResetThenRun ==
  phase = "done" =>
    /\ chip = ref
    /\ ret[1] = ret[2]

\* C24 witness: the buffers held samples before the call, the call started
\* in the middle of a sample period, stored a non-zero sample and dropped
\* samples.
C24_Witness ==
  /\ phase = "done"
  /\ pre.bufferPos > 0
  /\ pre.clockCounter # F64Zero
  /\ ret[1] > 0
  /\ \E i \in 0 .. chip.bufferPos - 1 : chip.channelBuffers[0][i] # 0

---------------------------------------------------------------------------
(* Claims checked under the general specification Spec (continued).        *)

\* C25: ResetBuffer sets bufferPos to 0 and changes no other field: the
\* sample accumulator, the prescaler, registers, counters, outputs, noise
\* toggle, LFSR, latch, gain and the contents of the buffers are as before.
C25_ResetBufferOnlyRewinds ==
  op.name = "ResetBuffer" =>
    /\ chip.bufferPos = 0
    /\ chip.clockCounter = pre.clockCounter
    /\ chip.clockDivider = pre.clockDivider
    /\ chip = [pre EXCEPT !.bufferPos = 0]

\* C25 witness: ResetBuffer was called on an engine that held samples, in
\* the middle of a sample period and of a prescaler period, after its LFSR
\* had shifted.
C25_Witness ==
  /\ op.name = "ResetBuffer"
  /\ pre.bufferPos > 0
  /\ pre.clockCounter # F64Zero
  /\ pre.clockDivider # 0
  /\ pre.noiseShift # pre.lfsrInitial
  /\ chip.clockCounter # F64Zero

---------------------------------------------------------------------------
(* The tone-zero specification: an engine of either variant is written to  *)
(* (tone register 0 of channel 0 set to 0 or 1, volume), clocked Clock     *)
(* call by Clock call and Reset.  nops counts the Clock calls since New or *)
(* the last Reset.                                                         *)

MaxZeroTicks == 5

\*   0x80 tone 0 low nibble 0     0x81 tone 0 low nibble 1
\*   0x00 data byte, high bits 0  0x90 tone 0 volume 0 (max)
ZeroBytes == {128, 129, 0, 144}

InitZero ==
  /\ chip \in Engines
  /\ ref = chip
  /\ pre = chip
  /\ op = Call("New", 0)
  /\ ret = 0
  /\ phase = "orig"
  /\ nops = 0

ZeroWrite(value) ==
  /\ chip' = Write(chip, value)
  /\ Noted("Write", value, 0)
  /\ UNCHANGED <<ref, phase, nops>>

ZeroClock ==
  /\ nops < 16 * MaxZeroTicks
  /\ chip' = Clock(chip)
  /\ nops' = nops + 1
  /\ Noted("Clock", 0, 0)
  /\ UNCHANGED <<ref, phase>>

ZeroReset ==
  /\ chip' = Reset(chip)
  /\ nops' = 0
  /\ Noted("Reset", 0, 0)
  /\ UNCHANGED <<ref, phase>>

NextZero ==
  \/ \E value \in ZeroBytes : ZeroWrite(value)
  \/ ZeroClock
  \/ ZeroReset

SpecZero == InitZero /\ [][NextZero]_vars

\* the last call was a Clock call that made an internal tick
Ticked == op.name = "Clock" /\ pre.clockDivider = 15

\* C26: on the Sega variant every internal tick of a tone channel whose
\* register is 0 leaves its counter at 1 and toggles its output.
C26_SegaToneZeroEveryTick ==
  (Ticked /\ chip.toneZeroValue = 1) =>
    \A ch \in 0 .. 2 :
      pre.toneReg[ch] = 0 =>
        /\ chip.toneCounter[ch] = 1
        /\ chip.toneOutput[ch] # pre.toneOutput[ch]

\* C27: on the TI variant an internal tick that finds the counter of a tone
\* channel at 0 while its register is 0 reloads the counter to 1024; with
\* tone register 0 at 0 the counter of channel 0 is 1024 after the 16th
\* Clock call since New or Reset.
C27_TIToneZeroReload ==
  (op.name = "Clock" /\ chip.toneZeroValue = 1024) =>
    /\ \A ch \in 0 .. 2 :
         (Ticked /\ pre.toneReg[ch] = 0 /\ pre.toneCounter[ch] = 0) =>
           /\ chip.toneCounter[ch] = 1024
           /\ chip.toneOutput[ch] # pre.toneOutput[ch]
    /\ (nops = 16 /\ pre.toneReg[0] = 0) => chip.toneCounter[0] = 1024

\* C27 witness: on the TI variant the third internal tick since New found
\* the counter of channel 0 expired with the register rewritten to 0 and
\* reloaded 1024, the channel having toggled at the first tick as well;
\* channel 1, at register 0 throughout, had reloaded 1024 at the first tick.
C27_Witness ==
  /\ op.name = "Clock"
  /\ chip.toneZeroValue = 1024
  /\ nops = 48
  /\ pre.toneReg[0] = 0 /\ pre.toneCounter[0] = 0
  /\ chip.toneCounter[0] = 1024
  /\ ~chip.toneOutput[0]
  /\ chip.toneCounter[1] = 1022
  /\ chip.volume[0] = 0

---------------------------------------------------------------------------
(* The prescaler specification: an engine of either variant is driven by   *)
(* Write, Clock, Run and Reset.  nops counts the input clocks (Clock calls *)
(* and the clocks of Run) since New or the last Reset.                     *)

MaxPsTicks == 3

\* the engines: one sample per input clock and room for one sample, so
\* that the resampler adds no phase of its own to the states
PsEngines == {New(1, 1, 1, v) : v \in Variants}

\*   0x81 tone 0 low nibble 1     0x90 tone 0 volume 0 (max)
PsBytes == {129, 144}

\* clock counts handed to Run: within a prescaler period, a whole period,
\* more than one
PsClocks == {1, 5, 16, 21}

InitPs ==
  /\ chip \in PsEngines
  /\ ref = chip
  /\ pre = chip
  /\ op = Call("New", 0)
  /\ ret = 0
  /\ phase = "orig"
  /\ nops = 0

PsWrite(value) ==
  /\ chip' = Write(chip, value)
  /\ Noted("Write", value, 0)
  /\ UNCHANGED <<ref, phase, nops>>

PsClock ==
  /\ nops < 16 * MaxPsTicks
  /\ chip' = Clock(chip)
  /\ nops' = nops + 1
  /\ Noted("Clock", 1, 0)
  /\ UNCHANGED <<ref, phase>>

PsRun(clocks) ==
  LET r == Run(chip, clocks)
  IN /\ nops + clocks <= 16 * MaxPsTicks
     /\ chip' = r[1]
     /\ nops' = nops + clocks
     /\ Noted("Run", clocks, r[2])
     /\ UNCHANGED <<ref, phase>>

PsReset ==
  /\ chip' = Reset(chip)
  /\ nops' = 0
  /\ Noted("Reset", 0, 0)
  /\ UNCHANGED <<ref, phase>>

NextPs ==
  \/ \E value \in PsBytes : PsWrite(value)
  \/ PsClock
  \/ \E clocks \in PsClocks : PsRun(clocks)
  \/ PsReset

SpecPs == InitPs /\ [][NextPs]_vars

\* the state of the four generators: counters, outputs, noise toggle, LFSR
Generators(s) ==
  <<s.toneCounter, s.toneOutput, s.noiseCounter, s.noiseToggle,
    s.noiseShift, s.noiseOut>>

\* C28: the divider is in 0..15 and equals the number of input clocks since
\* New or Reset modulo 16, so that internal ticks fall on the 16th, 32nd,
\* ... clock.  A Clock call changes the tone counters (which every internal
\* tick changes) exactly when it is such a clock and otherwise leaves
\* counters, outputs, noise toggle and LFSR as they were; a Run that does
\* not reach such a clock leaves them as they were, a Run that reaches
\* exactly one changes the tone counters.
C28_Prescaler ==
  /\ chip.clockDivider \in 0 .. 15
  /\ chip.clockDivider = nops % 16
  /\ op.name \in {"Clock", "Run"} =>
       LET ticks == (pre.clockDivider + op.arg) \div 16
       IN /\ ticks = 0 => Generators(chip) = Generators(pre)
          /\ ticks = 1 => \A ch \in 0 .. 2 :
                            chip.toneCounter[ch] # pre.toneCounter[ch]
          /\ op.name = "Clock" =>
               (ticks = 1 <=> nops % 16 = 0)

\* C28 witness: the 32nd input clock since New or Reset, a Clock call that
\* followed clocks made by Run, made the second internal tick.
C28_Witness ==
  /\ op.name = "Clock"
  /\ nops = 32
  /\ pre.clockDivider = 15
  /\ chip.clockDivider = 0
  /\ chip.bufferPos > 0
  /\ chip.gain = 1
  /\ chip.toneReg[0] = 1
  /\ chip.toneOutput[0]
  /\ chip.toneCounter[0] = 0
  /\ chip.channelBuffers[0][0] # 0

---------------------------------------------------------------------------
(* The noise-rate specification: an engine of either variant is written a  *)
(* noise mode with rate 0 right after New and then clocked Clock call by   *)
(* Clock call.  nops counts the Clock calls; ref counts the shifts of the  *)
(* LFSR and notes the internal tick of the last one.                       *)

MaxRateTicks == 70

\*   0xE0 periodic noise, rate 0     0xE4 white noise, rate 0
RateModes == {224, 228}

InitRate ==
  /\ chip \in Engines
  /\ ref = [shifts |-> 0, last |-> 0]
  /\ pre = chip
  /\ op = Call("New", 0)
  /\ ret = 0
  /\ phase = "orig"
  /\ nops = 0

\* chip.Write(0xE0) / chip.Write(0xE4)
RateWriteMode(value) ==
  /\ phase = "orig"
  /\ chip' = Write(chip, value)
  /\ phase' = "ticking"
  /\ Noted("Write", value, 0)
  /\ UNCHANGED <<ref, nops>>

RateClock ==
  LET c == Clock(chip)
  IN /\ phase = "ticking"
     /\ nops < 16 * MaxRateTicks
     /\ chip' = c
     /\ nops' = nops + 1
     /\ ref' = IF c.noiseShift # chip.noiseShift
                 THEN [shifts |-> ref.shifts + 1, last |-> (nops + 1) \div 16]
                 ELSE ref
     /\ Noted("Clock", 0, 0)
     /\ UNCHANGED phase

NextRate ==
  \/ \E value \in RateModes : RateWriteMode(value)
  \/ RateClock

SpecRate == InitRate /\ [][NextRate]_vars

\* C29: with noise rate 0 written right after New, the LFSR has not
\* shifted before internal tick 1, shifts at tick 1 and then at every 32nd
\* tick after it (ticks 33, 65, ...): after t >= 1 internal ticks it has
\* made 1 + (t - 1) \div 32 shifts.
C29_ShiftEvery32Ticks ==
  phase = "ticking" =>
    LET t == nops \div 16
    IN ref.shifts = IF t = 0 THEN 0 ELSE 1 + (t - 1) \div 32

---------------------------------------------------------------------------
(* Claim checked under the overflow specification SpecOv, whose engines    *)
(* have clock ratios below, at and above one clock per sample.             *)

\* C30: after every iteration of the loop of Run that emitted or dropped a
\* sample, the accumulator is at least 0 and below clocksPerSample
\* (float64 comparisons).
C30_AccumulatorBelowPeriod ==
  op.name = "Run" =>
    \A k \in 1 .. op.arg :
      LET a == Run(pre, k - 1)
          b == Run(pre, k)
      IN (b[1].bufferPos > a[1].bufferPos \/ b[2] > a[2]) =>
           /\ F64Ge(b[1].clockCounter, F64Zero)
           /\ ~F64Ge(b[1].clockCounter, b[1].clocksPerSample)

---------------------------------------------------------------------------
(* The register specification: an engine of either variant is driven by    *)
(* at most MaxInvOps Write, Clock, Run and Reset calls in any order, the   *)
(* written bytes reaching the largest and smallest register values.        *)

MaxInvOps == 4

\*   0x8F tone 0 low nibble F     0x81 tone 0 low nibble 1
\*   0x7F data byte, all bits     0x00 data byte 0
\*   0x90 tone 0 volume 0 (max)   0xCF tone 2 low nibble F
\*   0xEF noise latch, data F     0xFF noise volume 15
InvBytes == {143, 129, 127, 0, 144, 207, 239, 255}

\* one prescaler period
InvClocks == {16}

InitInv ==
  /\ chip \in PsEngines
  /\ ref = chip
  /\ pre = chip
  /\ op = Call("New", 0)
  /\ ret = 0
  /\ phase = "orig"
  /\ nops = 0

InvWrite(value) ==
  /\ nops < MaxInvOps
  /\ chip' = Write(chip, value)
  /\ nops' = nops + 1
  /\ Noted("Write", value, 0)
  /\ UNCHANGED <<ref, phase>>

InvClock ==
  /\ nops < MaxInvOps
  /\ chip' = Clock(chip)
  /\ nops' = nops + 1
  /\ Noted("Clock", 1, 0)
  /\ UNCHANGED <<ref, phase>>

InvRun(clocks) ==
  LET r == Run(chip, clocks)
  IN /\ nops < MaxInvOps
     /\ chip' = r[1]
     /\ nops' = nops + 1
     /\ Noted("Run", clocks, r[2])
     /\ UNCHANGED <<ref, phase>>

InvReset ==
  /\ nops < MaxInvOps
  /\ chip' = Reset(chip)
  /\ nops' = nops + 1
  /\ Noted("Reset", 0, 0)
  /\ UNCHANGED <<ref, phase>>

NextInv ==
  \/ \E value \in InvBytes : InvWrite(value)
  \/ InvClock
  \/ \E clocks \in InvClocks : InvRun(clocks)
  \/ InvReset

SpecInv == InitInv /\ [][NextInv]_vars

\* the larger of two numbers
Max(a, b) == IF a >= b THEN a ELSE b

\* the counter of tone channel ch is at most max(reg, tone_zero_value)
WithinRegister(s, ch) ==
  s.toneCounter[ch] <= Max(s.toneReg[ch], s.toneZeroValue)

\* C31 (as claimed): in every reachable state each tone channel has
\* counter <= max(reg, tone_zero_value).
C31_CounterWithinRegister ==
  \A ch \in 0 .. 2 : WithinRegister(chip, ch)

\* C31 (amended): in every reachable state each tone counter is at most
\* max(0x3FF, tone_zero_value); New establishes counter <= max(reg,
\* tone_zero_value) and Clock, Run and Reset preserve it for each channel.
\* (A Write that lowers the register below the running counter breaks it
\* until the counter is next reloaded.)
C31_CounterWithinLargestRegister ==
  \A ch \in 0 .. 2 :
    /\ chip.toneCounter[ch] <= Max(1023, chip.toneZeroValue)
    /\ op.name = "New" => WithinRegister(chip, ch)
    /\ (op.name \in {"Clock", "Run", "Reset"} /\ WithinRegister(pre, ch)) =>
         WithinRegister(chip, ch)

\* C31 witness: a Run has reloaded the counter of channel 0 with the
\* largest register value, 0x3FF.
C31_Witness ==
  /\ op.name = "Run"
  /\ WithinRegister(pre, 0)
  /\ pre.toneCounter[0] = 0
  /\ chip.toneReg[0] = 1023
  /\ chip.toneCounter[0] = 1023

\* C32: in every reachable state each tone register is at most 0x3FF, each
\* volume is in 0..15, noiseReg is in 0..7, the latched channel is in 0..3
\* and the latched type is 0 or 1.
C32_RegisterRanges ==
  /\ \A ch \in 0 .. 2 : chip.toneReg[ch] \in 0 .. 1023
  /\ \A ch \in 0 .. 3 : chip.volume[ch] \in 0 .. 15
  /\ chip.noiseReg \in 0 .. 7
  /\ chip.latchedChannel \in 0 .. 3
  /\ chip.latchedType \in {0, 1}

\* C32 witness: the registers hold their largest values: tone register 0
\* is 0x3FF after the data byte 0x7F, the noise register is 7 after the
\* latch byte 0xEF, and the latch is (3, volume) after 0xFF.
C32_Witness ==
  /\ chip.toneReg[0] = 1023
  /\ chip.noiseReg = 7
  /\ chip.volume[3] = 15
  /\ chip.latchedChannel = 3
  /\ chip.latchedType = 1
  /\ op = Call("Write", 255)

---------------------------------------------------------------------------
(* The noise-output specification: an engine of either variant is written  *)
(* to right after New (tone register 2, noise mode with rate 3, noise      *)
(* volume) and then clocked by Clock calls and by GenerateSamples(1),      *)
(* which makes one Clock call and stores one sample.  nops counts the      *)
(* input clocks.                                                           *)

MaxNoiseTicks == 70

\*   0xC1 tone 2 low nibble 1     0xF0 noise volume 0 (max)
\*   0xE3 periodic noise, rate 3  0xE7 white noise, rate 3
NzBytes == {193, 240, 227, 231}

InitNz ==
  /\ chip \in PsEngines
  /\ ref = chip
  /\ pre = chip
  /\ op = Call("New", 0)
  /\ ret = 0
  /\ phase = "orig"
  /\ nops = 0

NzWrite(value) ==
  /\ nops = 0
  /\ chip' = Write(chip, value)
  /\ Noted("Write", value, 0)
  /\ UNCHANGED <<ref, phase, nops>>

NzClock ==
  /\ nops < 16 * MaxNoiseTicks
  /\ chip' = Clock(chip)
  /\ nops' = nops + 1
  /\ Noted("Clock", 1, 0)
  /\ UNCHANGED <<ref, phase>>

NzGenerateSamples ==
  LET r == GenerateSamples(chip, 1)
  IN /\ nops < 16 * MaxNoiseTicks
     /\ chip' = r[1]
     /\ nops' = nops + 1
     /\ Noted("GenerateSamples", 1, r[2])
     /\ UNCHANGED <<ref, phase>>

NextNz ==
  \/ \E value \in NzBytes : NzWrite(value)
  \/ NzClock
  \/ NzGenerateSamples

SpecNz == InitNz /\ [][NextNz]_vars

\* the sum of the levels of the three tone channels
ToneLevels(s) == ChannelLevel(s, 0) + ChannelLevel(s, 1) + ChannelLevel(s, 2)

\* the level of the noise channel by its captured output bit
CapturedNoiseLevel(s) == IF s.noiseOut THEN volumeTable[s.volume[3]] ELSE 0

\* C33: across a clock in which the noise toggle does not rise, captured
\* output and LFSR are unchanged; the toggle flips exactly in the clocks
\* that are internal ticks finding the noise counter at 0; the noise part
\* of Sample and of the stored sample is the level selected by the captured
\* bit.
C33_NoiseCapturedOnRisingEdge ==
  /\ op.name \in {"Clock", "GenerateSamples"} =>
       /\ ~(~pre.noiseToggle /\ chip.noiseToggle) =>
            /\ chip.noiseOut = pre.noiseOut
            /\ chip.noiseShift = pre.noiseShift
       /\ (chip.noiseToggle # pre.noiseToggle)
            <=> (pre.clockDivider = 15 /\ pre.noiseCounter = 0)
       /\ (~pre.noiseToggle /\ chip.noiseToggle) =>
            chip.noiseOut = (pre.noiseShift % 2 # 0)
  /\ Sample(chip) = (ToneLevels(chip) + CapturedNoiseLevel(chip)) * chip.gain
  /\ op.name = "GenerateSamples" =>
       chip.channelBuffers[3][0] = CapturedNoiseLevel(chip)

\* C33 witness: a sample was stored while the captured bit was set and bit
\* 0 of the LFSR was clear, in a clock that did not raise the toggle.
C33_Witness ==
  /\ op.name = "GenerateSamples"
  /\ chip.noiseOut
  /\ chip.noiseShift % 2 = 0
  /\ chip.noiseToggle = pre.noiseToggle
  /\ chip.volume[3] = 0
  /\ chip.channelBuffers[3][0] = volumeTable[0]
  /\ Sample(chip) = volumeTable[0] * chip.gain

---------------------------------------------------------------------------
(* The noise-reload specification: an engine of either variant is written  *)
(* to at any time (noise rates 0..3, tone register 2 set to 1 or 5) and    *)
(* advanced one internal tick at a time by Run(16).  nops counts the       *)
(* internal ticks.                                                         *)

MaxReloadTicks == 8

\*   0xE0 .. 0xE3 periodic noise, rate 0 .. 3
\*   0xC5 tone 2 low nibble 5     0xC1 tone 2 low nibble 1
NrBytes == {224, 225, 226, 227, 197, 193}

InitNr ==
  /\ chip \in PsEngines
  /\ ref = chip
  /\ pre = chip
  /\ op = Call("New", 0)
  /\ ret = 0
  /\ phase = "orig"
  /\ nops = 0

NrWrite(value) ==
  /\ chip' = Write(chip, value)
  /\ Noted("Write", value, 0)
  /\ UNCHANGED <<ref, phase, nops>>

NrRun ==
  LET r == Run(chip, 16)
  IN /\ nops < MaxReloadTicks
     /\ chip' = r[1]
     /\ nops' = nops + 1
     /\ Noted("Run", 16, r[2])
     /\ UNCHANGED <<ref, phase>>

NextNr ==
  \/ \E value \in NrBytes : NrWrite(value)
  \/ NrRun

SpecNr == InitNr /\ [][NextNr]_vars

\* C34: an internal tick that finds the noise counter at 0 leaves it at
\* 0x10, 0x20 or 0x40 for rate 0, 1 or 2 and, for rate 3, at the value tone
\* register 2 has at that tick (tone_zero_value if it is 0); a tick that
\* finds it above 0 decrements it; a Write, to tone register 2 or any
\* other, leaves the noise counter as it is.
C34_NoiseReload ==
  /\ op.name = "Run" =>
       LET rate == pre.noiseReg % 4
       IN IF pre.noiseCounter = 0
            THEN /\ rate = 0 => chip.noiseCounter = 16
                 /\ rate = 1 => chip.noiseCounter = 32
                 /\ rate = 2 => chip.noiseCounter = 64
                 /\ (rate = 3 /\ pre.toneReg[2] # 0) =>
                      chip.noiseCounter = pre.toneReg[2]
                 /\ (rate = 3 /\ pre.toneReg[2] = 0) =>
                      chip.noiseCounter = pre.toneZeroValue
            ELSE chip.noiseCounter = pre.noiseCounter - 1
  /\ op.name = "Write" => chip.noiseCounter = pre.noiseCounter

\* C34 witness: at rate 3 the noise counter, reloaded with 5 at the first
\* tick, ran out at the seventh and was reloaded with the 1 written to tone
\* register 2 in between.
C34_Witness ==
  /\ op.name = "Run"
  /\ nops = 7
  /\ pre.noiseReg % 4 = 3
  /\ pre.noiseCounter = 0
  /\ pre.toneReg[2] = 1
  /\ chip.noiseCounter = 1
  /\ ~chip.noiseToggle
  /\ chip.noiseShift * 2 = chip.lfsrInitial

---------------------------------------------------------------------------
(* Write and timing, under the write specification. *)

\* C35: a Write of any byte leaves the prescaler, the sample accumulator,
\* the tone and noise counters, the tone outputs, the noise toggle, the
\* captured noise output, the buffer position and the gain unchanged; it
\* changes nothing but the registers, the volumes, the latch and, when
\* the noise register is written, the LFSR (which is reseeded).
C35_WriteDoesNoTiming ==
  op.name = "Write" =>
    /\ chip.clockDivider = pre.clockDivider
    /\ chip.clockCounter = pre.clockCounter
    /\ chip.toneCounter = pre.toneCounter
    /\ chip.noiseCounter = pre.noiseCounter
    /\ chip.toneOutput = pre.toneOutput
    /\ chip.noiseToggle = pre.noiseToggle
    /\ chip.noiseOut = pre.noiseOut
    /\ chip.bufferPos = pre.bufferPos
    /\ chip.gain = pre.gain
    /\ chip = [pre EXCEPT !.toneReg = chip.toneReg,
                          !.volume = chip.volume,
                          !.noiseReg = chip.noiseReg,
                          !.latchedChannel = chip.latchedChannel,
                          !.latchedType = chip.latchedType,
                          !.noiseShift = chip.noiseShift]
    /\ chip.noiseShift # pre.noiseShift =>
         /\ chip.latchedChannel = 3
         /\ chip.latchedType = 0
         /\ chip.noiseShift = chip.lfsrInitial

\* C35 witness: tone register 0 was 5, one internal tick reloaded the
\* counter with 5, raised the output and stored a sample; then the latch
\* byte 0x80 cleared the register and the counter, the output, the
\* prescaler, the accumulator and the buffer position stayed.
C35_Witness ==
  /\ op = Call("Write", 128)
  /\ ret = Call("Run", 16)
  /\ pre.toneReg[0] = 5
  /\ chip.toneReg[0] = 0
  /\ chip.toneCounter[0] = 5
  /\ chip.toneOutput[0]
  /\ chip.bufferPos = 1
  /\ Halves(chip.clockCounter) > 0

---------------------------------------------------------------------------
(* The byte layout of a snapshot, under the snapshot specification. *)

\* the two bytes at buf[at], buf[at + 1] hold v, low byte first
Le16(buf, at, v) == buf[at] = v % 256 /\ buf[at + 1] = v \div 256

\* the eight bytes at buf[at:] are the IEEE-754 binary64 pattern of x, low
\* byte first: the sign in bit 63, the biased exponent in bits 62..52 and
\* the fraction in bits 51..0
Le64Float(buf, at, x) ==
  /\ buf[at + 7] \div 128 = x.s
  /\ (buf[at + 7] % 128) * 16 + buf[at + 6] \div 16 = x.e
  /\ (buf[at + 6] % 16) * 4194304 + buf[at + 5] * 16384 + buf[at + 4] * 64
       + buf[at + 3] \div 4 = x.hi
  /\ (buf[at + 3] % 4) * 16777216 + buf[at + 2] * 65536 + buf[at + 1] * 256
       + buf[at] = x.lo

\* the binary64 pattern at buf[at:] has the value halves / 2, a whole
\* number of halves: all bytes zero for 0, else sign 0 and a fraction
\* whose low 40 bits are clear with
\* (1 + frac / 2^12) * 2^(biased - 1023) = halves / 2
Le64Halves(buf, at, halves) ==
  LET biased == buf[at + 7] * 16 + buf[at + 6] \div 16
      frac == (buf[at + 6] % 16) * 256 + buf[at + 5]
      x == biased - 1023
  IN /\ \A i \in 0 .. 4 : buf[at + i] = 0
     /\ buf[at + 7] < 128
     /\ IF halves = 0 THEN biased = 0 /\ frac = 0
        ELSE IF x >= 0
          THEN (4096 + frac) * Pow2(x) * 2 = halves * 4096
          ELSE (4096 + frac) * 2 = halves * 4096 * Pow2(0 - x)

\* buf holds the documented layout of engine s
Layout(buf, s) ==
  /\ buf[0] = 1
  /\ \A i \in 0 .. 2 : Le16(buf, 1 + 2 * i, s.toneReg[i])
  /\ \A i \in 0 .. 2 : Le16(buf, 7 + 2 * i, s.toneCounter[i])
  /\ \A i \in 0 .. 2 : buf[13 + i] = (IF s.toneOutput[i] THEN 1 ELSE 0)
  /\ buf[16] = s.noiseReg
  /\ Le16(buf, 17, s.noiseCounter)
  /\ Le16(buf, 19, s.noiseShift)
  /\ buf[21] = (IF s.noiseOut THEN 1 ELSE 0)
  /\ \A i \in 0 .. 3 : buf[22 + i] = s.volume[i]
  /\ buf[26] = s.latchedChannel
  /\ buf[27] = s.latchedType
  /\ buf[28] = s.clockDivider
  /\ \A i \in 29 .. 31 : buf[i] = 0
  /\ Le64Float(buf, 32, s.clockCounter)
  /\ Halves(s.clockCounter) >= 0 => Le64Halves(buf, 32, Halves(s.clockCounter))

\* C36: a successful Serialize leaves in the buffer the version at offset
\* 0, the tone registers at 1..6, the tone counters at 7..12, the tone
\* outputs at 13..15, the noise register at 16, the noise counter at
\* 17..18, the LFSR at 19..20, the captured noise output bit (the bit
\* Sample mixes) at 21, the volumes at 22..25, the latched channel and
\* type at 26 and 27, the prescaler at 28..31 and the accumulator as a
\* binary64 at 32..39, multi-byte fields low byte first; a successful
\* Deserialize leaves the engine with each of these fields as the buffer
\* holds it at the same offset, so that, gain apart, it mixes the sample
\* the serialized engine mixed.
C36_SnapshotLayout ==
  /\ (op.name = "Serialize" /\ ret[2] = ErrNone) => Layout(ret[1], pre)
  /\ (op.name = "Deserialize" /\ ret[2] = ErrNone) =>
       /\ Layout(ret[1], chip)
       /\ Sample(chip) * ref.source.gain = Sample(ref.source) * chip.gain

\* C36 witness: the engine serialized, with 32/3 clocks per sample, had a
\* raised noise toggle, a captured noise bit of 0 and, after 16 clocks, the
\* rounded value 5.333333333333334 (0x4015555555555556) in its
\* accumulator; the engine that loaded the snapshot held other values
\* before.
C36_Witness ==
  /\ op.name = "Deserialize"
  /\ ret[2] = ErrNone
  /\ ref.source.noiseToggle
  /\ ref.snapshot[21] = 0
  /\ ref.snapshot[32] = 86 /\ ref.snapshot[33] = 85
  /\ ref.snapshot[38] = 21 /\ ref.snapshot[39] = 64
  /\ ref.snapshot[22] = 0
  /\ pre.clockCounter # chip.clockCounter
  /\ pre.toneReg # chip.toneReg
  /\ chip.clockCounter = F64Sub(F64(0, 1027, 0, 0), F64Div(32, 3))

\* C36 second witness: the TI engine serialized, with 10.5 clocks per
\* sample, had a tone counter of 0x3FF and half a sample period in its
\* accumulator (0x3FE0000000000000).
C36_WitnessHalf ==
  /\ op.name = "Deserialize"
  /\ ret[2] = ErrNone
  /\ ref.snapshot[7] = 255 /\ ref.snapshot[8] = 3
  /\ ref.snapshot[38] = 224 /\ ref.snapshot[39] = 63
  /\ pre.toneReg # chip.toneReg
  /\ chip.toneCounter[0] = 1023

---------------------------------------------------------------------------
(* The sample of a channel at rest, under the general specification. *)

\* the first call on a new Sega engine was Write(0x90): channel 0 is at
\* maximum volume, its output still LOW, the gain the default
FirstWriteMaxVolume ==
  /\ nops = 1
  /\ op = Call("Write", 144)
  /\ pre = Fresh(pre)
  /\ pre.toneZeroValue = 1

\* C37 as claimed: on a new Sega engine with the default gain, after
\* Write(0x90) and with the output of channel 0 still LOW, Sample() is
\* -0.25 (minus the amplitude of volume 0, times the gain).
C37_LowOutputIsNegative ==
  FirstWriteMaxVolume => Sample(chip) = 0 - volumeTable[0] * chip.gain

\* C37 as the engine has it: on a new Sega engine with the default gain,
\* after Write(0x90) and with the output of channel 0 still LOW, Sample()
\* is 0.0, a LOW channel contributing nothing; whenever channel 0 is the
\* only audible channel, at maximum volume, Sample() under any gain is 0
\* while its output is LOW and the gain times the amplitude of volume 0
\* (0.25 under the default gain) while it is HIGH.
C37_LowOutputIsSilent ==
  /\ FirstWriteMaxVolume =>
       /\ ~chip.toneOutput[0]
       /\ chip.gain = 1
       /\ Sample(chip) = 0
  /\ chip.volume = (0 :> 0 @@ 1 :> 15 @@ 2 :> 15 @@ 3 :> 15) =>
       \A gain \in Gains \cup {1} :
         Sample(SetGain(chip, gain))
           = IF chip.toneOutput[0] THEN gain * volumeTable[0] ELSE 0

\* C37 witness: Write(0x90) was the first call on a new Sega engine and
\* Sample() is 0.
C37_Witness ==
  /\ FirstWriteMaxVolume
  /\ chip.volume[0] = 0
  /\ ~chip.toneOutput[0]
  /\ Sample(chip) = 0
  /\ Sample(SetGain(chip, 2)) = 0

---------------------------------------------------------------------------
(* The foreign-snapshot specification: a new engine is handed, by          *)
(* Deserialize, a 40-byte buffer with version byte 1 that no Serialize     *)
(* need have produced: the snapshot of a new engine with the byte at one   *)
(* offset replaced.  The engine is then clocked.  Offsets 32..39, the      *)
(* accumulator, are left as Serialize wrote them.                          *)

MaxAnyClocks == 17

AnyOffsets == 1 .. 31
AnyValues == {0, 1, 15, 16, 128, 255}

\* the snapshot of a new engine with one byte replaced
AnyBuffer(s, offset, value) ==
  [Serialize(Fresh(s), Bytes(sn76489SerializeSize))[1] EXCEPT ![offset] = value]

InitAny ==
  /\ chip \in PsEngines
  /\ ref = chip
  /\ pre = chip
  /\ op = Call("New", 0)
  /\ ret = ErrNone
  /\ phase = "orig"
  /\ nops = 0

AnyDeserialize(offset, value) ==
  LET r == Deserialize(chip, AnyBuffer(chip, offset, value))
  IN /\ phase = "orig"
     /\ chip' = r[1]
     /\ phase' = "loaded"
     /\ Noted("Deserialize", <<offset, value>>, r[2])
     /\ UNCHANGED <<ref, nops>>

AnyClock ==
  /\ phase = "loaded"
  /\ nops < MaxAnyClocks
  /\ chip' = Clock(chip)
  /\ nops' = nops + 1
  /\ Noted("Clock", 0, ErrNone)
  /\ UNCHANGED <<ref, phase>>

NextAny ==
  \/ \E offset \in AnyOffsets, value \in AnyValues : AnyDeserialize(offset, value)
  \/ AnyClock

SpecAny == InitAny /\ [][NextAny]_vars

\* C38: after a Deserialize that returned no error every volume is in
\* 0..15, the latched channel is in 0..3, every tone register is at most
\* 0x3FF, the LFSR is not 0 and is within the width of the variant, and
\* the prescaler is in 0..15.
C38_LoadedStateInRange ==
  (op.name = "Deserialize" /\ ret = ErrNone) =>
    /\ \A ch \in 0 .. 3 : chip.volume[ch] \in 0 .. 15
    /\ chip.latchedChannel \in 0 .. 3
    /\ \A ch \in 0 .. 2 : chip.toneReg[ch] <= 1023
    /\ chip.noiseShift # 0
    /\ chip.noiseShift < 2 * chip.lfsrInitial
    /\ chip.clockDivider \in 0 .. 15

---------------------------------------------------------------------------
(* The emission-count specification: engines of capacity 1 with 1, 1.5,    *)
(* 10.5 and 16 clocks per sample, and with 9/5, 10/3 and 20/11 clocks per  *)
(* sample (quotients a float64 rounds), are run in calls of 1, 3, 5 or 16  *)
(* clocks until MaxEmClocks clocks have been spent.  ref holds the engine  *)
(* as constructed, the clocks spent and the samples emitted, stored or     *)
(* dropped, so far.                                                        *)

MaxEmClocks == 24

EmRatios ==
  {<<1, 1>>, <<3, 2>>, <<21, 2>>, <<16, 1>>, <<9, 5>>, <<10, 3>>, <<20, 11>>}
EmEngines == {New(r[1], r[2], 1, v) : r \in EmRatios, v \in Variants}
EmClocks == {1, 3, 5, 16}

InitEm ==
  /\ chip \in EmEngines
  /\ ref = [start |-> chip, clocks |-> 0, emitted |-> 0]
  /\ pre = chip
  /\ op = Call("New", 0)
  /\ ret = 0
  /\ phase = "orig"
  /\ nops = 0

EmRun(clocks) ==
  LET r == Run(chip, clocks)
  IN /\ ref.clocks + clocks <= MaxEmClocks
     /\ chip' = r[1]
     /\ ref' = [ref EXCEPT
                  !.clocks = ref.clocks + clocks,
                  !.emitted = ref.emitted + (r[1].bufferPos - chip.bufferPos)
                                + r[2]]
     /\ nops' = nops + 1
     /\ Noted("Run", clocks, r[2])
     /\ UNCHANGED phase

NextEm == \E clocks \in EmClocks : EmRun(clocks)

SpecEm == InitEm /\ [][NextEm]_vars

\* e = floor((c + n) / p), in real arithmetic on the values of the float64
\* accumulator c and period p
IsFloor(e, c, n, p) ==
  LET total == ExactSum(Exact(c), ExactInt(n))
  IN /\ ExactLe(ExactTimes(e, Exact(p)), total)
     /\ ExactLt(total, ExactTimes(e + 1, Exact(p)))

\* e is floor((c + n) / p) or one sample away from it
NearFloor(e, c, n, p) ==
  \E f \in {e - 1, e, e + 1} : f >= 0 /\ IsFloor(f, c, n, p)

\* the samples the last call emitted: stored ones and dropped ones
Emitted == (chip.bufferPos - pre.bufferPos) + ret

\* the samples one Run of all the clocks spent so far emits
EmittedAtOnce ==
  LET r == Run(ref.start, ref.clocks) IN r[1].bufferPos + r[2]

\* C39 as stated: with clockFreq >= sampleRate a Run of n clocks from
\* accumulator c emits (stores or drops) exactly floor((c + n) /
\* clocksPerSample) samples, and the samples emitted by all Run calls so
\* far are floor(clocks so far / clocksPerSample), less than one sample
\* below clocks / clocksPerSample (the quotients in real arithmetic on the
\* float64 values the engine holds).
C39_EmissionExact ==
  F64Ge(chip.clocksPerSample, F64One) =>
    /\ op.name = "Run" =>
         IsFloor(Emitted, pre.clockCounter, op.arg, pre.clocksPerSample)
    /\ IsFloor(ref.emitted, F64Zero, ref.clocks, chip.clocksPerSample)

\* C39 amended: with clockFreq >= sampleRate a Run of n clocks from
\* accumulator c emits exactly floor((c + n) / clocksPerSample) samples
\* when clocksPerSample is a whole number of halves, the float64
\* accumulator then being exact, and that number or one sample more or
\* less for any other ratio; the same holds of the samples emitted by all
\* Run calls so far and floor(clocks so far / clocksPerSample), and that
\* total is the number one Run of all the clocks emits, however the clocks
\* were split over the calls.
C39_EmissionCount ==
  /\ F64Ge(chip.clocksPerSample, F64One)
  /\ IsExact(chip.clockCounter)
  /\ op.name = "Run" =>
       /\ NearFloor(Emitted, pre.clockCounter, op.arg, pre.clocksPerSample)
       /\ Halves(pre.clocksPerSample) > 0 =>
            IsFloor(Emitted, pre.clockCounter, op.arg, pre.clocksPerSample)
  /\ NearFloor(ref.emitted, F64Zero, ref.clocks, chip.clocksPerSample)
  /\ Halves(chip.clocksPerSample) > 0 =>
       IsFloor(ref.emitted, F64Zero, ref.clocks, chip.clocksPerSample)
  /\ ref.emitted = EmittedAtOnce

\* C39 witness: at 20/11 clocks per sample 20 clocks were spent in more
\* than three calls, the last one of 5 clocks starting in the middle of a
\* sample period, and 10 samples were emitted in all, one fewer than
\* floor(20 / clocksPerSample) = 11.
C39_Witness ==
  /\ chip.clocksPerSample = F64Div(20, 11)
  /\ ref.clocks = 20
  /\ nops > 3
  /\ op = Call("Run", 5)
  /\ pre.clockCounter # F64Zero
  /\ ref.emitted = 10
  /\ IsFloor(11, F64Zero, ref.clocks, chip.clocksPerSample)

\* C39 second witness: at 1.5 clocks per sample 24 clocks were spent in
\* more than three calls, the last one of 5 clocks starting in the middle
\* of a sample period and emitting 4 samples, none of which found room; 16
\* samples were emitted in all.
C39_WitnessExact ==
  /\ Halves(chip.clocksPerSample) = 3
  /\ ref.clocks = MaxEmClocks
  /\ nops > 3
  /\ op = Call("Run", 5)
  /\ pre.clockCounter # F64Zero
  /\ ret = 4
  /\ ref.emitted = 16

---------------------------------------------------------------------------
(* The read-only specification: an engine is driven for at most MaxRoSetup *)
(* calls of Write, Run and SetGain, between and after which it is read by  *)
(* Serialize (into a buffer that is too short or long enough), Sample,     *)
(* GetBuffer, GetChannelBuffers and the accessors.                         *)

MaxRoSetup == 2

\*   0x90 tone 0 volume 0 (max)   0xE7 noise: white, rate 3
\*   0x85 tone 0 low nibble 5
RoBytes == {144, 231, 133}
RoClocks == {32}
RoGains == {2}
RoLengths == {39, 40}

InitRo ==
  /\ chip \in Engines
  /\ ref = chip
  /\ pre = chip
  /\ op = Call("New", 0)
  /\ ret = 0
  /\ phase = "orig"
  /\ nops = 0

RoWrite(value) ==
  /\ nops < MaxRoSetup
  /\ chip' = Write(chip, value)
  /\ nops' = nops + 1
  /\ Noted("Write", value, 0)
  /\ UNCHANGED <<ref, phase>>

RoRun(clocks) ==
  LET r == Run(chip, clocks)
  IN /\ nops < MaxRoSetup
     /\ chip' = r[1]
     /\ nops' = nops + 1
     /\ Noted("Run", clocks, r[2])
     /\ UNCHANGED <<ref, phase>>

RoSetGain(gain) ==
  /\ nops < MaxRoSetup
  /\ chip' = SetGain(chip, gain)
  /\ nops' = nops + 1
  /\ Noted("SetGain", gain, 0)
  /\ UNCHANGED <<ref, phase>>

\* the calls that assign to no field of the engine
RoSerialize(len) ==
  /\ Noted("Serialize", len, Serialize(chip, Bytes(len)))
  /\ UNCHANGED <<chip, ref, phase, nops>>

RoSample ==
  /\ Noted("Sample", 0, Sample(chip))
  /\ UNCHANGED <<chip, ref, phase, nops>>

RoGetChannelBuffers ==
  /\ Noted("GetChannelBuffers", 0, GetChannelBuffers(chip))
  /\ UNCHANGED <<chip, ref, phase, nops>>

RoGetToneReg(ch) ==
  /\ Noted("GetToneReg", ch, GetToneReg(chip, ch))
  /\ UNCHANGED <<chip, ref, phase, nops>>

RoGetVolume(ch) ==
  /\ Noted("GetVolume", ch, GetVolume(chip, ch))
  /\ UNCHANGED <<chip, ref, phase, nops>>

RoGetNoiseReg ==
  /\ Noted("GetNoiseReg", 0, GetNoiseReg(chip))
  /\ UNCHANGED <<chip, ref, phase, nops>>

RoGetNoiseShift ==
  /\ Noted("GetNoiseShift", 0, GetNoiseShift(chip))
  /\ UNCHANGED <<chip, ref, phase, nops>>

RoGetGain ==
  /\ Noted("GetGain", 0, GetGain(chip))
  /\ UNCHANGED <<chip, ref, phase, nops>>

RoClocksPerSample ==
  /\ Noted("ClocksPerSample", 0, ClocksPerSample(chip))
  /\ UNCHANGED <<chip, ref, phase, nops>>

RoGetBuffer ==
  /\ chip' = GetBuffer(chip)
  /\ Noted("GetBuffer", 0, <<GetBuffer(chip).mixBuffer, chip.bufferPos>>)
  /\ UNCHANGED <<ref, phase, nops>>

NextRo ==
  \/ \E value \in RoBytes : RoWrite(value)
  \/ \E clocks \in RoClocks : RoRun(clocks)
  \/ \E gain \in RoGains : RoSetGain(gain)
  \/ \E len \in RoLengths : RoSerialize(len)
  \/ RoSample
  \/ RoGetChannelBuffers
  \/ \E ch \in 0 .. 2 : RoGetToneReg(ch)
  \/ \E ch \in 0 .. 3 : RoGetVolume(ch)
  \/ RoGetNoiseReg
  \/ RoGetNoiseShift
  \/ RoGetGain
  \/ RoClocksPerSample
  \/ RoGetBuffer

SpecRo == InitRo /\ [][NextRo]_vars

ReadOnlyCalls ==
  {"Serialize", "Sample", "GetChannelBuffers", "GetToneReg", "GetVolume",
   "GetNoiseReg", "GetNoiseShift", "GetGain", "ClocksPerSample"}

\* C40: Serialize (whether it succeeds or fails), Sample,
\* GetChannelBuffers, GetToneReg, GetVolume, GetNoiseReg, GetNoiseShift,
\* GetGain and ClocksPerSample leave the whole engine as it was; GetBuffer
\* leaves everything but the mixed buffer as it was (registers, counters,
\* outputs, LFSR, latch, prescaler, accumulator, bufferPos, gain and the
\* per-channel buffers), and returns bufferPos as the count.
C40_ReadsDoNotMutate ==
  /\ op.name \in ReadOnlyCalls => chip = pre
  /\ op.name = "GetBuffer" =>
       /\ chip = [pre EXCEPT !.mixBuffer = chip.mixBuffer]
       /\ chip.bufferPos = pre.bufferPos
       /\ chip.channelBuffers = pre.channelBuffers
       /\ ret[2] = pre.bufferPos

\* C40 witness: an engine holding samples was read by GetBuffer, which
\* changed its mixed buffer and nothing else.
C40_Witness ==
  /\ op.name = "GetBuffer"
  /\ pre.bufferPos > 0
  /\ chip.mixBuffer # pre.mixBuffer
  /\ chip.bufferPos = pre.bufferPos
  /\ chip.volume[0] = 0

=============================================================================
